---- MODULE Spec2Model ----
(***************************************************************************)
(* A model of the Pulse sensor AppDaemon apps.                             *)
(*                                                                         *)
(* Three revisions of the same app live in the repository:                 *)
(*   "app"           src/pulseapp/app.py       PulseApp  (MQTT, in-memory  *)
(*                                             topology snapshot)          *)
(*   "pulseapp"      src/pulseapp/pulseapp.py  PulseApp  (MQTT, snapshot   *)
(*                                             kept in the host store)     *)
(*   "pulse_sensors" src/pulse_sensors.py      PulseSensors (host store    *)
(*                                             only, date-ranged fetch)    *)
(* The variable `variant` says which revision is loaded; it is chosen in   *)
(* Init and never changes.  The host (AppDaemon scheduler, Home Assistant  *)
(* state store, MQTT broker) and the vendor API are the environment: the   *)
(* host fires timers and state-change events, the vendor answers each GET  *)
(* with a nondeterministically chosen outcome.                             *)
(*                                                                         *)
(* A discovery cycle of app.py is modelled one HTTP request per step, so   *)
(* that another callback can be placed between two of its requests; every  *)
(* other callback is one action.                                           *)
(***************************************************************************)
EXTENDS Integers, Sequences, FiniteSets, TLC

\* ------------------------------------------------------------------ bounds
MaxHubs == 2        \* hub ids the vendor account can list: 1..MaxHubs
MaxDevices == 2     \* sensor devices attached to hub 1 (every other hub has one)
MaxChanges == 2     \* interval-change events the host delivers in one run

\* ------------------------------------------------------- program constants
SENSOR_UPDATE_INTERVAL == 60
SENSOR_DISCOVERY_INTERVAL == 3600
INITIAL_DISCOVERY_DELAY == 10
PULSE_SENSORS_UPDATE_INTERVAL == 600
PULSE_SENSORS_DISCOVERY_INTERVAL == 43200
HourAgo == 0        \* the instant one hour before the run; data instants are 1, 2

VARIABLES
    variant,          \* which revision of the app is loaded
    plugins,          \* the HASS and MQTT plugins are loaded (BOOLEAN)
    api_key,          \* host store: input_text.pulse_api_key is set (BOOLEAN)
    hass_interval,    \* host store: the two input_number entities (0 = entity absent)
    lifecycle,        \* "created" | "initialized" | "init_failed" | "init_refused"
                      \* | "terminated" | "terminate_raised"
    session,          \* self._session: "none" | "open" | "closed"
    timers,           \* the scheduler's active timers
    next_timer,       \* the next fresh timer handle
    listeners,        \* the registered state listeners
    changes,          \* interval-change events delivered so far
    state_update_job, \* self.state_update_job / self.sensor_update_job_uuid (0 = None)
    discovery_job,    \* self.discovery_job / self.sensor_discover_job_uuid (0 = None)
    discovered_hubs,  \* app.py: self.discovered_hubs, in dict insertion order
    store,            \* host store entities written by the app
    d_pc,             \* app.py discovery cycle: "idle" | "hubs" | "devices"
    d_hub_ids,        \* hub ids of the running cycle still to be fetched
    d_attrs,          \* local discovered_attributes of the running cycle
    d_devices,        \* (hub, device) pairs of the running cycle still to be fetched
    d_hub,            \* pulseapp.py: the hub whose devices the running cycle is at
    d_count,          \* pulseapp.py: local discovered_sensor_count of the running cycle
    d_before,         \* self.discovered_hubs when the running cycle, or the cycle
                      \* that completed last, started
    observed,         \* snapshots, other than d_before, that a state-publish
                      \* callback read while the running/last cycle ran
    d_result,         \* discovery callback: "none" | "running" | "skipped" | "completed" | "raised"
    d_log,            \* GET, PUB and SET events of the running/last discovery callback
    p_pc,             \* state-publish callback: "idle" | "running"
    p_idx,            \* index of the hub the publisher is at
    p_devices,        \* devices of that hub still to be fetched
    p_new_timestamp,  \* pulse_sensors.py: local new_timestamp of update_sensors
    p_result,         \* state-publish callback: "none" | "running" | "skipped" | ...
    p_log,            \* GET and PUB events of the running/last state-publish callback
    last_response,    \* the shape of the response to the latest GET ("none" before it)
    history,          \* what is remembered of the cycle before the running one,
                      \* for the properties that relate successive cycles
    decoded           \* models.py: the latest decoding, its input and its outcome

vars == <<variant, plugins, api_key, hass_interval, lifecycle, session, timers, next_timer,
          listeners, changes, state_update_job, discovery_job, discovered_hubs,
          store, d_pc, d_hub_ids, d_attrs, d_devices, d_hub, d_count, d_before,
          observed, d_result, d_log, p_pc, p_idx, p_devices, p_new_timestamp,
          p_result, p_log, last_response, history, decoded>>

\* -------------------------------------------------------------- data model
HubIds == 1..MaxHubs

\* The devices the vendor reports as attached to hub h.
NumDevicesOf(h) == IF h = 1 THEN MaxDevices ELSE 1
SensorDevicesOf(h) == [i \in 1..NumDevicesOf(h) |-> 10 * h + i]
HubOf(device) == device \div 10

\* pulseapp/models.py HubDetails, cut to the fields the app reads.
HubDetails(h) == [id |-> h, sensorDevices |-> SensorDevicesOf(h)]
NoneHub == [id |-> 0, sensorDevices |-> <<>>]

\* A datetime: its instant and whether it carries a time zone.
datetime(t, aware) == [t |-> t, aware |-> aware]
NoTime == datetime(0, FALSE)

\* pulseapp/models.py SensorType(code).name, as the sequence of its characters;
\* _missing_ gives UNKNOWN for every other code.
SensorTypeName(code) ==
    CASE code = 0 -> <<"H","U","B">>
      [] code = 1 -> <<"V","W","C","1">>
      [] code = 2 -> <<"T","H","V","1">>
      [] code = 3 -> <<"P","H","1","0">>
      [] code = 4 -> <<"E","C","1">>
      [] code = 5 -> <<"V","W","C","1","2">>
      [] code = 8 -> <<"P","A","R","1">>
      [] code = 9 -> <<"V","W","C","2">>
      [] code = 10 -> <<"O","R","P","1">>
      [] code = 11 -> <<"T","H","C","1">>
      [] code = 12 -> <<"T","D","O","1">>
      [] code = 13 -> <<"V","W","C","3">>
      [] OTHER -> <<"U","N","K","N","O","W","N">>

\* pulseapp/models.py LatestSensorData, cut to the fields the app reads: the
\* sensor type code and the ordered data points (parameter name, value).
NoneReading == [sensorType |-> -2, dataPointValues |-> <<>>]
\* A parameter name is the sequence of its characters; a value is in tenths.
WaterContent == <<"W","a","t","e","r"," ","C","o","n","t","e","n","t">>
DewPoint == <<"D","e","w"," ","P","o","i","n","t">>
Temperature == <<"T","e","m","p","e","r","a","t","u","r","e">>
DataPointValue(name, value, unit) ==
    [ParamName |-> name, ParamValue |-> value, MeasuringUnit |-> unit]
\* The readings a device may answer with: a VWC1 probe (code 1) reporting its
\* water content in two data points of the same name, or a VWC2 probe (code 9)
\* reporting temperature and water content.
Readings ==
    { [sensorType |-> 1,
       dataPointValues |-> << DataPointValue(WaterContent, 410, "%"),
                              DataPointValue(WaterContent, 425, "%") >>],
      [sensorType |-> 9,
       dataPointValues |-> << DataPointValue(Temperature, 215, "C"),
                              DataPointValue(WaterContent, 380, "%") >>] }

\* ---------------------------------------------------------- the vendor API
\* What one GET can come to.  kind "error": session.request or response.json()
\* raised (timeout, connection error, body that is not JSON).  kind "json":
\* the decoded body, by its shape: "empty" (null, {}, [], 0, ""), a non-empty
\* "list", a non-empty "scalar", or a non-empty "dict" that either matches the
\* record the caller validates it against (valid) or does not.  status is the
\* HTTP status of the response (0: there was none).
Body(tag, valid, ids, hub, reading) ==
    [tag |-> tag, valid |-> valid, ids |-> ids, hub |-> hub, reading |-> reading]
NoBody == Body("empty", FALSE, <<>>, NoneHub, NoneReading)
Response(kind, body) ==
    [kind |-> kind, status |-> IF kind = "error" THEN 0 ELSE 200, body |-> body]
ErrorResponse == Response("error", NoBody)
\* The vendor refuses the request: a non-2xx status with a JSON body that
\* describes the error.
NotFoundResponse ==
    [kind |-> "json", status |-> 404, body |-> Body("dict", FALSE, <<>>, NoneHub, NoneReading)]
ShapelessBodies ==
    { NoBody,
      Body("scalar", FALSE, <<>>, NoneHub, NoneReading),
      Body("dict", FALSE, <<>>, NoneHub, NoneReading) }

\* The lists of hub ids the vendor may answer GET /hubs/ids with: any of the
\* account's hub ids, in ascending order.
RECURSIVE HubIdLists(_)
HubIdLists(n) ==
    IF n = 0 THEN { <<>> }
    ELSE HubIdLists(n - 1) \cup { Append(s, n) : s \in HubIdLists(n - 1) }
AllHubIdLists == HubIdLists(MaxHubs)

HubIdsResponses ==
    { ErrorResponse, NotFoundResponse }
    \cup { Response("json", b) : b \in ShapelessBodies }
    \cup { Response("json", Body("list", TRUE, ids, NoneHub, NoneReading)) :
             ids \in AllHubIdLists \ { <<>> } }

\* pulseapp.py and pulse_sensors.py iterate whatever GET /hubs/ids returns; for
\* them the vendor answers with a list of hub ids, an empty body, or not at all.
ListedHubIdsResponses ==
    { ErrorResponse, Response("json", NoBody) }
    \cup { Response("json", Body("list", TRUE, ids, NoneHub, NoneReading)) :
             ids \in AllHubIdLists \ { <<>> } }

HubResponses(h) ==
    { ErrorResponse, NotFoundResponse }
    \cup { Response("json", b) : b \in ShapelessBodies }
    \cup { Response("json", Body("list", FALSE, <<>>, NoneHub, NoneReading)),
           Response("json", Body("dict", TRUE, <<>>, HubDetails(h), NoneReading)) }

SensorResponses ==
    { ErrorResponse }
    \cup { Response("json", b) : b \in ShapelessBodies }
    \cup { Response("json", Body("list", FALSE, <<>>, NoneHub, NoneReading)) }
    \cup { Response("json", Body("dict", TRUE, <<>>, NoneHub, r)) : r \in Readings }

\* pulse_sensors.py: the body of GET /sensors/{id}/data-range, cut to the keys
\* update_sensors reads.  ParamValues, a comma-separated text, is the sequence
\* of its items: the text of a number (in tenths) or a text that float() rejects.
Num(value) == [numeric |-> TRUE, value |-> value]
NotNum == [numeric |-> FALSE, value |-> 0]
RangeParam(name, unit, values) ==
    [ParamName |-> name, MeasuringUnit |-> unit, ParamValues |-> values]
RangeData ==
    { [dataPointValuesCreatedAt |-> <<>>, dataPointValues |-> <<>>],
      [dataPointValuesCreatedAt |-> <<1>>,
       dataPointValues |-> << RangeParam(Temperature, "C", << Num(215) >>),
                              RangeParam(WaterContent, "%", << NotNum >>) >>],
      [dataPointValuesCreatedAt |-> <<1, 2>>,
       dataPointValues |-> << RangeParam(DewPoint, "", << Num(98), Num(99) >>),
                              RangeParam(Temperature, "C", << Num(215) >>) >>] }
RangeResponses ==
    { ErrorResponse }
    \cup { Response("json", b) : b \in ShapelessBodies }
    \cup { Response("json", Body("list", FALSE, <<>>, NoneHub, NoneReading)) }
    \cup { Response("json", Body("dict", TRUE, <<>>, NoneHub, d)) : d \in RangeData }

\* How the response reads in the log: "error", "http_error" for a response
\* with a non-2xx status, or the shape of the decoded body ("empty", "list",
\* "scalar", "dict" for a dict of the expected record, "bad_dict" for any other
\* non-empty dict).
Outcome(resp) ==
    IF resp.kind = "error" THEN "error"
    ELSE IF resp.status # 200 THEN "http_error"
    ELSE IF resp.body.tag = "dict" /\ ~resp.body.valid THEN "bad_dict"
    ELSE resp.body.tag

\* ------------------------------------------------------------ log events
\* A GET and how the client call that issued it came out: "ok" (a value was
\* returned), "absent" (None or an empty list was returned), or the exception
\* that left the call ("RequestError", "TypeError").
Get(endpoint, id, result) ==
    [op |-> "GET", endpoint |-> endpoint, id |-> id, result |-> result]
Result(r, none) ==
    IF r.exc # "none" THEN r.exc ELSE IF r.ret = none THEN "absent" ELSE "ok"
Pub(topic, payload) ==
    [op |-> "PUB", topic |-> topic, payload |-> payload, retain |-> TRUE]

\* ------------------------------------------------------- the host scheduler
UPDATE_ENTITY == "input_number.sensor_update_interval"
DISCOVERY_ENTITY == "input_number.sensor_discovery_interval"
Entities == { UPDATE_ENTITY, DISCOVERY_ENTITY }
\* The values a user gives the two input_number entities.
Intervals == { 30, 120 }

\* ADAPI.run_every(callback, "now", interval) with the fresh handle id.
run_every(ts, id, callback, interval) ==
    ts \cup { [id |-> id, callback |-> callback, interval |-> interval, every |-> TRUE] }
\* A build whose run_in schedules nothing.
run_in_without_timer(ts, id, callback, delay) == ts

\* ADAPI.run_in(callback, delay) with the fresh handle id.
run_in(ts, id, callback, delay) ==
    ts \cup { [id |-> id, callback |-> callback, interval |-> delay, every |-> FALSE] }
\* ADAPI.cancel_timer(handle): the timer with that handle is no longer active.
cancel_timer(ts, handle) == { t \in ts : t.id # handle }
\* ADAPI.listen_state(callback, entity)
listen_state(ls, callback, entity) ==
    ls \cup { [callback |-> callback, entity |-> entity] }

Variants == { "app", "pulseapp", "pulse_sensors" }

hostVars == <<variant, plugins, api_key>>
schedVars == <<timers, next_timer, listeners, state_update_job, discovery_job>>
discVars == <<d_pc, d_hub_ids, d_attrs, d_devices, d_hub, d_count, d_before, d_result, d_log>>
pubVars == <<p_pc, p_idx, p_devices, p_new_timestamp, p_result, p_log>>
cycleVars == <<discVars, pubVars, observed, last_response>>
dataVars == <<discovered_hubs, store>>

\* The history, recorded when on: the requests that failed in the callback that
\* ran just before the running (or last) one, when that was a cycle of the same
\* kind, and whose item the running cycle is given again.
History(on, due) ==
    [on |-> on, due |-> due, run |-> FALSE, announced |-> {}, fetched |-> {},
     skipped |-> {}]
\* The history of the run, recorded when run is set: the state topics named
\* by the announcements of the callbacks before the running (or last)
\* discovery callback.  In pulse_sensors.py the history also holds, of the
\* running (or last) update_sensors: the instants of the entries it was given
\* to record (fetched) and the entities of the parameters whose values did not
\* match the timestamps in number (skipped).
RunHistory ==
    [on |-> FALSE, due |-> {}, run |-> TRUE, announced |-> {}, fetched |-> {},
     skipped |-> {}]

\* One decoding of models.py: which decoder ran, on what, whether it raised,
\* and what it returned.
Decoded(op, input, raised, value) ==
    [op |-> op, input |-> input, raised |-> raised, value |-> value]
InitFrom(revisions, initial_history) ==
    /\ history = initial_history
    /\ decoded = Decoded("none", 0, FALSE, 0)
    /\ variant \in revisions
    /\ plugins \in BOOLEAN
    /\ api_key \in BOOLEAN
    /\ hass_interval \in { [e \in Entities |-> v] : v \in {0, 30} }
    /\ lifecycle = "created"
    /\ session = "none"
    /\ timers = {}
    /\ next_timer = 1
    /\ listeners = {}
    /\ changes = 0
    /\ state_update_job = 0
    /\ discovery_job = 0
    /\ discovered_hubs = <<>>
    /\ store = [exists |-> FALSE, hubs |-> <<>>, sensors |-> <<>>, count |-> 0,
                last_update |-> 0]
    /\ d_pc = "idle"
    /\ d_hub_ids = <<>>
    /\ d_attrs = <<>>
    /\ d_devices = <<>>
    /\ d_hub = NoneHub
    /\ d_count = 0
    /\ d_before = <<>>
    /\ observed = {}
    /\ d_result = "none"
    /\ d_log = <<>>
    /\ p_pc = "idle"
    /\ p_idx = 0
    /\ p_devices = <<>>
    /\ p_new_timestamp = NoTime
    /\ p_result = "none"
    /\ p_log = <<>>
    /\ last_response = "none"

InitWith(revisions, recording) == InitFrom(revisions, History(recording, {}))
InitOf(revisions) == InitWith(revisions, FALSE)

\* ------------------------------------------- app.py: initialize and timers
\* _get_update_intervals: int(float(str(get_state(entity)) or DEFAULT)).  The
\* str() of an absent entity is the non-empty text "None", so the default is
\* never taken and float() raises: 0 stands for that ValueError.
_get_update_intervals(entity) == hass_interval[entity]

InitFails ==
    /\ lifecycle' = "init_failed"
    /\ UNCHANGED <<hostVars, history, decoded, hass_interval, schedVars, changes, cycleVars, dataVars>>

\* _ensure_plugins_loaded: the exception it raises ("none": returns).
_ensure_plugins_loaded == IF ~plugins THEN "RuntimeError" ELSE "none"

\* A build of _init_pulse_api that opens the session without asking for the key.
_init_pulse_api_without_key == "none"

\* _init_pulse_api: the exception it raises ("none": the session is opened).
_init_pulse_api == IF ~api_key THEN "RuntimeError" ELSE "none"

\* PulseApp.initialize of app.py: _init_required_apis, _register_scheduled_ad_jobs,
\* _register_update_interval_listeners, then the one-shot discovery.
initialize ==
    /\ variant = "app"
    /\ lifecycle = "created"
    /\ IF _ensure_plugins_loaded # "none"
       THEN InitFails /\ UNCHANGED session
       ELSE IF _init_pulse_api # "none"
       THEN \* raised before the session exists
            InitFails /\ UNCHANGED session
       ELSE IF \E e \in Entities : _get_update_intervals(e) = 0
       THEN \* _get_update_intervals raises ValueError after the session exists
            InitFails /\ session' = "open"
       ELSE /\ session' = "open"
            /\ lifecycle' = "initialized"
            /\ state_update_job' = next_timer
            /\ discovery_job' = next_timer + 1
            /\ timers' =
                 run_in(
                   run_every(
                     run_every(timers, next_timer, "hub_sensor_updates",
                               _get_update_intervals(UPDATE_ENTITY)),
                     next_timer + 1, "hub_device_discovery",
                     _get_update_intervals(DISCOVERY_ENTITY)),
                   next_timer + 2, "hub_device_discovery", INITIAL_DISCOVERY_DELAY)
            /\ next_timer' = next_timer + 3
            /\ listeners' =
                 listen_state(listen_state(listeners, "update_intervals", UPDATE_ENTITY),
                              "update_intervals", DISCOVERY_ENTITY)
            /\ UNCHANGED <<hostVars, history, decoded, hass_interval, changes, cycleVars, dataVars>>

\* A build of update_intervals that schedules the new timer and leaves the old
\* one running.
update_intervals_keeps_old_timer(entity, new) ==
    IF entity = "input_number.sensor_update_interval"
    THEN << run_every(timers, next_timer, "hub_sensor_updates", new),
            next_timer + 1, next_timer, discovery_job >>
    ELSE IF entity = "input_number.sensor_discovery_interval"
    THEN << run_every(timers, next_timer, "hub_device_discovery", new),
            next_timer + 1, state_update_job, next_timer >>
    ELSE << timers, next_timer, state_update_job, discovery_job >>

\* A build of update_intervals that does not keep the handle run_every returns.
update_intervals_drops_handle(entity, new) ==
    IF entity = "input_number.sensor_update_interval"
    THEN << run_every(IF state_update_job # 0
                      THEN cancel_timer(timers, state_update_job) ELSE timers,
                      next_timer, "hub_sensor_updates", new),
            next_timer + 1, state_update_job, discovery_job >>
    ELSE IF entity = "input_number.sensor_discovery_interval"
    THEN << run_every(IF discovery_job # 0
                      THEN cancel_timer(timers, discovery_job) ELSE timers,
                      next_timer, "hub_device_discovery", new),
            next_timer + 1, state_update_job, discovery_job >>
    ELSE << timers, next_timer, state_update_job, discovery_job >>

\* PulseApp.update_intervals of app.py, as the successor of the scheduler state.
\* Returns the new <<timers, next_timer, state_update_job, discovery_job>>.
update_intervals(entity, new) ==
    IF entity = "input_number.sensor_update_interval"
    THEN << run_every(IF state_update_job # 0
                      THEN cancel_timer(timers, state_update_job) ELSE timers,
                      next_timer, "hub_sensor_updates", new),
            next_timer + 1, next_timer, discovery_job >>
    ELSE IF entity = "input_number.sensor_discovery_interval"
    THEN << run_every(IF discovery_job # 0
                      THEN cancel_timer(timers, discovery_job) ELSE timers,
                      next_timer, "hub_device_discovery", new),
            next_timer + 1, state_update_job, next_timer >>
    ELSE << timers, next_timer, state_update_job, discovery_job >>

\* ------------------------------------------------------ app.py: API client
\* _make_pulse_api_request(endpoint): ignore_errors is never passed, so a
\* failing request re-raises; otherwise the decoded body is returned as it is.
_make_pulse_api_request(resp) ==
    IF resp.kind = "error"
    THEN [exc |-> "RequestError", value |-> NoBody]
    ELSE [exc |-> "none", value |-> resp.body]

\* Python truthiness of a decoded body.
Falsy(body) == body.tag = "empty"

\* A build of _discover_hub_ids without the isinstance test: a non-empty body
\* that is no list goes on to the caller, where len(hub_ids) or the loop over
\* it raises TypeError.
_discover_hub_ids_without_list_check(resp) ==
    LET r == _make_pulse_api_request(resp)
    IN  IF r.exc # "none" THEN [exc |-> r.exc, ret |-> <<>>]
        ELSE IF Falsy(r.value) THEN [exc |-> "none", ret |-> <<>>]
        ELSE IF r.value.tag # "list" THEN [exc |-> "TypeError", ret |-> <<>>]
        ELSE [exc |-> "none", ret |-> r.value.ids]

\* _discover_hub_ids
_discover_hub_ids(resp) ==
    LET r == _make_pulse_api_request(resp)
    IN  IF r.exc # "none" THEN [exc |-> r.exc, ret |-> <<>>]
        ELSE IF Falsy(r.value) \/ r.value.tag # "list" THEN [exc |-> "none", ret |-> <<>>]
        ELSE [exc |-> "none", ret |-> r.value.ids]

\* _get_hub_details: HubDetails(**response) raises TypeError when the body is
\* no mapping; a ValidationError is caught and None returned.
_get_hub_details(resp) ==
    LET r == _make_pulse_api_request(resp)
    IN  IF r.exc # "none" THEN [exc |-> r.exc, ret |-> NoneHub]
        ELSE IF Falsy(r.value) THEN [exc |-> "none", ret |-> NoneHub]
        ELSE IF r.value.tag # "dict" THEN [exc |-> "TypeError", ret |-> NoneHub]
        ELSE IF ~r.value.valid THEN [exc |-> "none", ret |-> NoneHub]
        ELSE [exc |-> "none", ret |-> r.value.hub]

\* get_sensor_latest_data: as _get_hub_details, with LatestSensorData.
get_sensor_latest_data(resp) ==
    LET r == _make_pulse_api_request(resp)
    IN  IF r.exc # "none" THEN [exc |-> r.exc, ret |-> NoneReading]
        ELSE IF Falsy(r.value) THEN [exc |-> "none", ret |-> NoneReading]
        ELSE IF r.value.tag # "dict" THEN [exc |-> "TypeError", ret |-> NoneReading]
        ELSE IF ~r.value.valid THEN [exc |-> "none", ret |-> NoneReading]
        ELSE [exc |-> "none", ret |-> r.value.reading]

\* ------------------------------------------------- identifiers and payloads
\* str.lower() on one character.
UpperCase == <<"A","B","C","D","E","F","G","H","I","J","K","L","M",
               "N","O","P","Q","R","S","T","U","V","W","X","Y","Z">>
LowerCase == <<"a","b","c","d","e","f","g","h","i","j","k","l","m",
               "n","o","p","q","r","s","t","u","v","w","x","y","z">>
lower(c) ==
    IF \E i \in 1..Len(UpperCase) : UpperCase[i] = c
    THEN LowerCase[CHOOSE i \in 1..Len(UpperCase) : UpperCase[i] = c]
    ELSE c
\* s.lower() and s.replace(" ", "_")
str_lower(s) == [i \in 1..Len(s) |-> lower(s[i])]
str_replace_space(s) == [i \in 1..Len(s) |-> IF s[i] = " " THEN "_" ELSE s[i]]
\* A build that normalizes the parameter name by replacing the spaces only.
param_name_keeping_case(name) == str_replace_space(name)

\* measurement.ParamName.replace(" ", "_").lower()
param_name(name) == str_lower(str_replace_space(name))

\* f"pulseapp_hub_{hub.id}" and f"pulseapp_{device_type}_{device.id}"
hub_unique_id(hub_id) == [prefix |-> "pulseapp", type |-> <<"h","u","b">>, id |-> hub_id]
device_unique_id(device_type, device_id) ==
    [prefix |-> "pulseapp", type |-> device_type, id |-> device_id]
ConfigTopic(unique_id) == [root |-> "homeassistant/device", id |-> unique_id, leaf |-> "config"]
StateTopic(unique_id) == [root |-> "pulseapp", id |-> unique_id, leaf |-> "state"]

\* models.py DeviceClass.from_param_name: exact lookup, "none" for no hint.
WordHumidity == <<"H","u","m","i","d","i","t","y">>
WordVPD == <<"V","P","D">>
\* A build whose lookup ignores the case of the parameter name.
from_param_name_ignoring_case(name) ==
    IF str_lower(name) = str_lower(WordHumidity) THEN "humidity"
    ELSE IF str_lower(name) = str_lower(Temperature) THEN "temperature"
    ELSE IF str_lower(name) = str_lower(WaterContent) THEN "moisture"
    ELSE IF str_lower(name) = str_lower(WordVPD) THEN "pressure"
    ELSE "none"

\* DeviceClass.from_param_name(param_name).value, "none" for None: mapping.get
\* over the four names of the table.
from_param_name(name) ==
    IF name = WordHumidity THEN "humidity"
    ELSE IF name = Temperature THEN "temperature"
    ELSE IF name = WaterContent THEN "moisture"
    ELSE IF name = WordVPD THEN "pressure"
    ELSE "none"

\* A build that keeps the items in a list and appends each new one.
DictSet_appending(d, key, value) == Append(d, [key |-> key, value |-> value])

\* A Python dict as the sequence of its items in insertion order: d[key] = value
\* replaces the item with that key where it stands, or appends a new item.
DictSet(d, key, value) ==
    IF \E i \in 1..Len(d) : d[i].key = key
    THEN [i \in 1..Len(d) |-> IF d[i].key = key THEN [key |-> key, value |-> value] ELSE d[i]]
    ELSE Append(d, [key |-> key, value |-> value])
DictKeys(d) == { d[i].key : i \in 1..Len(d) }
DictValues(d) == [i \in 1..Len(d) |-> d[i].value]

\* _process_device_components
RECURSIVE ComponentsFrom(_, _, _)
ComponentsFrom(components, uid, points) ==
    IF points = <<>> THEN components
    ELSE LET measurement == Head(points)
             name == param_name(measurement.ParamName)
             comp_unique_id == [device |-> uid, param |-> name]
         IN  ComponentsFrom(
               DictSet(components, comp_unique_id,
                       [platform |-> "sensor",
                        name |-> measurement.ParamName,
                        unique_id |-> comp_unique_id,
                        object_id |-> comp_unique_id,
                        unit_of_measurement |-> measurement.MeasuringUnit,
                        device_class |-> from_param_name(measurement.ParamName),
                        state_topic |-> StateTopic(uid),
                        value_template |-> name]),
               uid, Tail(points))
_process_device_components(uid, device_data) ==
    ComponentsFrom(<<>>, uid, device_data.dataPointValues)

\* _generate_sensor_payload: normalized parameter name -> value
RECURSIVE PayloadFrom(_, _)
PayloadFrom(payload, points) ==
    IF points = <<>> THEN payload
    ELSE PayloadFrom(DictSet(payload, param_name(Head(points).ParamName),
                             Head(points).ParamValue),
                     Tail(points))
\* A build that keeps the first value published under a name
\* (payload.setdefault(param_name, value)).
RECURSIVE PayloadKeepingFirst(_, _)
PayloadKeepingFirst(payload, points) ==
    IF points = <<>> THEN payload
    ELSE PayloadKeepingFirst(
           IF param_name(Head(points).ParamName) \in DictKeys(payload) THEN payload
           ELSE DictSet(payload, param_name(Head(points).ParamName), Head(points).ParamValue),
           Tail(points))
_generate_sensor_payload_keeping_first(device_data) ==
    PayloadKeepingFirst(<<>>, device_data.dataPointValues)

\* A build whose payload is keyed by the parameter names as the vendor sends them.
_generate_sensor_payload_with_vendor_names(device_data) ==
    [n \in 1..Len(device_data.dataPointValues) |->
        [key |-> device_data.dataPointValues[n].ParamName,
         value |-> device_data.dataPointValues[n].ParamValue]]

_generate_sensor_payload(device_data) == PayloadFrom(<<>>, device_data.dataPointValues)

\* The hub's discovery payload of _process_and_publish_hubs.
HubPayload(hub) ==
    [device |-> [identifiers |-> hub_unique_id(hub.id), model_id |-> <<"H","u","b">>],
     components |-> << [key |-> [device |-> hub_unique_id(hub.id), param |-> <<"v","o","i","d">>],
                        value |-> [platform |-> "binary_sensor",
                                   unique_id |-> hub_unique_id(hub.id),
                                   state_topic |-> StateTopic(hub_unique_id(hub.id))]] >>]

\* The device's discovery payload of _process_and_publish_devices.
DevicePayload(uid, via, device_data) ==
    [device |-> [identifiers |-> uid, model_id |-> SensorTypeName(device_data.sensorType),
                 via_device |-> via],
     components |-> _process_device_components(uid, device_data)]

\* ------------------------------------------------ app.py: discovery cycle
\* The requests of a sequence of events that did not return a value.
FailedItems(events) ==
    { [endpoint |-> events[i].endpoint, id |-> events[i].id] :
        i \in { j \in 1..Len(events) : events[j].op = "GET" /\ events[j].result # "ok" } }
\* The history as a discovery cycle given the hub ids `listed` begins, before
\* it resets the log: the failed requests of the discovery cycle that ran just
\* before, for the listing, the hubs listed again and the devices of those.
\* The state topics named by the announcements in a sequence of events.
Announced(events) ==
    UNION { { events[i].payload.components[n].value.state_topic :
                n \in 1..Len(events[i].payload.components) } :
            i \in { j \in 1..Len(events) :
                      events[j].op = "PUB" /\ events[j].topic.leaf = "config" } }
HistoryOfRun ==
    IF history.run THEN history.announced \cup Announced(d_log) ELSE history.announced
HistoryAtDiscovery(listed) ==
    [history EXCEPT
       !.announced = HistoryOfRun,
       !.due = IF ~history.on THEN @
               ELSE { it \in FailedItems(d_log) :
                        \/ it.endpoint = "/hubs/ids"
                        \/ it.endpoint = "/hubs/{id}" /\ it.id \in listed
                        \/ it.endpoint = "/sensors/{id}/recent-data"
                             /\ HubOf(it.id) \in listed }]
\* The history as a state-publish cycle begins: the failed requests of the
\* state-publish cycle that ran just before.
HistoryAtPublish ==
    [history EXCEPT
       !.announced = HistoryOfRun,
       !.due = IF ~history.on THEN @
               ELSE IF p_pc = "idle" THEN FailedItems(p_log) ELSE {}]

Set(entity) == [op |-> "SET", entity |-> entity]
Fired(t) == IF t.every THEN timers ELSE timers \ {t}

\* for hub_unique_id, hub in self.discovered_hubs.items(): for device in
\* hub.sensorDevices: the (hub key, device id) pairs in iteration order.
RECURSIVE DeviceQueue(_)
DeviceQueue(hubs) ==
    IF hubs = <<>> THEN <<>>
    ELSE [i \in 1..Len(Head(hubs).value.sensorDevices) |->
            [hub_unique_id |-> Head(hubs).key, device |-> Head(hubs).value.sensorDevices[i]]]
         \o DeviceQueue(Tail(hubs))

\* The discovery callback ends: normally (result) or by the exception leaving it.
DiscoveryEnds(result, events) ==
    /\ d_pc' = "idle"
    /\ d_result' = result
    /\ d_log' = events
    /\ d_hub_ids' = <<>>
    /\ d_attrs' = <<>>
    /\ d_devices' = <<>>
    /\ d_hub' = NoneHub
    /\ d_count' = 0
    /\ d_before' = IF result = "completed" THEN d_before ELSE <<>>

\* hub_device_discovery up to the call of _process_and_publish_hubs: the timer
\* fires, the hub ids are fetched.
hub_device_discovery ==
    /\ variant = "app"
    /\ lifecycle = "initialized"
    /\ d_pc = "idle"
    /\ p_pc = "idle"
    /\ \E t \in timers : t.callback = "hub_device_discovery" /\ timers' = Fired(t)
    /\ observed' = {}
    /\ p_result' = "none"
    /\ p_log' = <<>>
    /\ \E resp \in HubIdsResponses :
         /\ last_response' = Outcome(resp)
         /\ LET r == _discover_hub_ids(resp)
                events == << Get("/hubs/ids", 0, Result(r, <<>>)) >>
            IN  /\ history' = HistoryAtDiscovery({ r.ret[i] : i \in 1..Len(r.ret) })
                /\ UNCHANGED decoded
                /\ IF r.exc # "none" THEN DiscoveryEnds("raised", events)
                   ELSE IF r.ret = <<>> THEN DiscoveryEnds("skipped", events)
                   ELSE /\ d_pc' = "hubs"
                        /\ d_result' = "running"
                        /\ d_log' = events
                        /\ d_hub_ids' = r.ret
                        /\ d_attrs' = <<>>
                        /\ d_devices' = <<>>
                        /\ d_before' = discovered_hubs
                        /\ UNCHANGED <<d_hub, d_count>>
    /\ UNCHANGED <<hostVars, hass_interval, lifecycle, session, next_timer, listeners,
                   changes, state_update_job, discovery_job, dataVars, p_pc, p_idx,
                   p_devices, p_new_timestamp>>

\* _process_and_publish_hubs, one hub id per step; after the last hub id the
\* attributes are written to the host store and hub_device_discovery goes on to
\* the devices of self.discovered_hubs.
_process_and_publish_hubs ==
    /\ variant = "app"
    /\ d_pc = "hubs"
    /\ p_pc = "idle"
    /\ \E resp \in HubResponses(Head(d_hub_ids)) :
         /\ last_response' = Outcome(resp)
         /\ LET hub_id == Head(d_hub_ids)
                r == _get_hub_details(resp)
                hub == r.ret
                found == hub # NoneHub
                uid == hub_unique_id(hub.id)
                log1 == Append(d_log, Get("/hubs/{id}", hub_id, Result(r, NoneHub)))
                log2 == IF found THEN Append(log1, Pub(ConfigTopic(uid), HubPayload(hub)))
                        ELSE log1
                hubs1 == IF found THEN DictSet(discovered_hubs, uid, hub) ELSE discovered_hubs
                attrs1 == IF found THEN DictSet(d_attrs, uid, hub) ELSE d_attrs
                rest == Tail(d_hub_ids)
                log3 == Append(log2, Set("discovered_hubs"))
            IN  IF r.exc # "none"
                THEN DiscoveryEnds("raised", log1) /\ UNCHANGED <<discovered_hubs, store>>
                ELSE /\ discovered_hubs' = hubs1
                     /\ IF rest # <<>>
                        THEN /\ d_hub_ids' = rest
                             /\ d_attrs' = attrs1
                             /\ d_log' = log2
                             /\ UNCHANGED <<d_pc, d_result, d_devices, d_hub, d_count,
                                            d_before, store>>
                        ELSE /\ store' = [store EXCEPT !.exists = TRUE, !.hubs = attrs1]
                             /\ IF DeviceQueue(hubs1) = <<>>
                                THEN DiscoveryEnds("completed", log3)
                                ELSE /\ d_pc' = "devices"
                                     /\ d_devices' = DeviceQueue(hubs1)
                                     /\ d_log' = log3
                                     /\ d_hub_ids' = <<>>
                                     /\ d_attrs' = <<>>
                                     /\ UNCHANGED <<d_result, d_hub, d_count, d_before>>
    /\ UNCHANGED <<hostVars, history, decoded, hass_interval, lifecycle, session, schedVars, changes,
                   observed, pubVars>>

\* _process_and_publish_devices, one device per step.
_process_and_publish_devices ==
    /\ variant = "app"
    /\ d_pc = "devices"
    /\ p_pc = "idle"
    /\ \E resp \in SensorResponses :
         /\ last_response' = Outcome(resp)
         /\ LET item == Head(d_devices)
                r == get_sensor_latest_data(resp)
                device_data == r.ret
                found == device_data # NoneReading
                device_type == str_lower(SensorTypeName(device_data.sensorType))
                uid == device_unique_id(device_type, item.device)
                log1 == Append(d_log, Get("/sensors/{id}/recent-data", item.device,
                                         Result(r, NoneReading)))
                log2 == IF found
                        THEN Append(log1, Pub(ConfigTopic(uid),
                                              DevicePayload(uid, item.hub_unique_id, device_data)))
                        ELSE log1
                rest == Tail(d_devices)
            IN  IF r.exc # "none" THEN DiscoveryEnds("raised", log1)
                ELSE IF rest = <<>> THEN DiscoveryEnds("completed", log2)
                ELSE /\ d_devices' = rest
                     /\ d_log' = log2
                     /\ UNCHANGED <<d_pc, d_result, d_hub_ids, d_attrs, d_hub, d_count,
                                    d_before>>
    /\ UNCHANGED <<hostVars, history, decoded, hass_interval, lifecycle, session, schedVars, changes,
                   dataVars, observed, pubVars>>

\* --------------------------------------------- app.py: state-publish cycle
\* The state-publish callback ends.
PublisherEnds(result, events) ==
    /\ p_pc' = "idle"
    /\ p_result' = result
    /\ p_log' = events
    /\ p_idx' = 0
    /\ p_devices' = <<>>
    /\ p_new_timestamp' = NoTime

\* for hub in <the snapshot's hubs>: the loop moves past the hub at
\* index idx: _publish_hub_state for each next hub, up to one that has a device.
RECURSIVE NextHubIn(_, _, _)
NextHubIn(hubs, events, idx) ==
    IF idx >= Len(hubs)
    THEN [done |-> TRUE, events |-> events, idx |-> idx, devices |-> <<>>]
    ELSE LET hub == hubs[idx + 1]
             log1 == Append(events, Pub(StateTopic(hub_unique_id(hub.id)), "ON"))
         IN  IF hub.sensorDevices = <<>>
             THEN NextHubIn(hubs, log1, idx + 1)
             ELSE [done |-> FALSE, events |-> log1, idx |-> idx + 1,
                   devices |-> hub.sensorDevices]
NextHub(events, idx) == NextHubIn(DictValues(discovered_hubs), events, idx)

PublisherMoves(next) ==
    IF next.done THEN PublisherEnds("completed", next.events)
    ELSE /\ p_pc' = "running"
         /\ p_result' = "running"
         /\ p_log' = next.events
         /\ p_idx' = next.idx
         /\ p_devices' = next.devices
         /\ UNCHANGED p_new_timestamp

\* A build of hub_sensor_updates without the "no hubs discovered yet" return.
PublisherBegins_without_guard ==
    /\ variant = "app"
    /\ lifecycle = "initialized"
    /\ p_pc = "idle"
    /\ \E t \in timers : t.callback = "hub_sensor_updates" /\ timers' = Fired(t)
    /\ last_response' = "none"
    /\ PublisherMoves(NextHub(<<>>, 0))
    /\ UNCHANGED <<hostVars, hass_interval, lifecycle, session, next_timer, listeners,
                   changes, state_update_job, discovery_job, dataVars, d_pc, d_hub_ids,
                   d_attrs, d_devices, d_hub, d_count>>

\* A build of hub_sensor_updates that takes the hubs out of self.discovered_hubs
\* as it reads them: the dict is left empty.
PublisherBegins_consuming_snapshot ==
    /\ variant = "app"
    /\ lifecycle = "initialized"
    /\ p_pc = "idle"
    /\ \E t \in timers : t.callback = "hub_sensor_updates" /\ timers' = Fired(t)
    /\ last_response' = "none"
    /\ IF discovered_hubs = <<>>
       THEN PublisherEnds("skipped", <<>>)
       ELSE PublisherMoves(NextHub(<<>>, 0))
    /\ discovered_hubs' = <<>>
    /\ UNCHANGED <<hostVars, hass_interval, lifecycle, session, next_timer, listeners,
                   changes, state_update_job, discovery_job, store, d_pc, d_hub_ids,
                   d_attrs, d_devices, d_hub, d_count>>

\* hub_sensor_updates up to its first request: the timer fires, the snapshot
\* is read.
PublisherBegins ==
    /\ variant = "app"
    /\ lifecycle = "initialized"
    /\ p_pc = "idle"
    /\ \E t \in timers : t.callback = "hub_sensor_updates" /\ timers' = Fired(t)
    /\ last_response' = "none"
    /\ IF discovered_hubs = <<>>
       THEN PublisherEnds("skipped", <<>>)
       ELSE PublisherMoves(NextHub(<<>>, 0))
    /\ UNCHANGED <<hostVars, hass_interval, lifecycle, session, next_timer, listeners,
                   changes, state_update_job, discovery_job, dataVars, d_pc, d_hub_ids,
                   d_attrs, d_devices, d_hub, d_count>>

\* The host runs one callback of the app at a time: the state-publish callback
\* begins when no discovery cycle is running.
hub_sensor_updates ==
    /\ d_pc = "idle"
    /\ PublisherBegins
    /\ d_result' = "none"
    /\ d_log' = <<>>
    /\ observed' = {}
    /\ d_before' = <<>>
    /\ history' = HistoryAtPublish
    /\ UNCHANGED decoded

\* _publish_device_state
DeviceStateEvent(device_id, device_data) ==
    Pub(StateTopic(device_unique_id(
                     str_lower(str_replace_space(SensorTypeName(device_data.sensorType))),
                     device_id)),
        _generate_sensor_payload(device_data))

\* hub_sensor_updates, one device per step.
hub_sensor_updates_device ==
    /\ variant = "app"
    /\ p_pc = "running"
    /\ \E resp \in SensorResponses :
         /\ last_response' = Outcome(resp)
         /\ LET device_id == Head(p_devices)
                r == get_sensor_latest_data(resp)
                log1 == Append(p_log, Get("/sensors/{id}/recent-data", device_id,
                                         Result(r, NoneReading)))
                log2 == IF r.ret # NoneReading
                        THEN Append(log1, DeviceStateEvent(device_id, r.ret))
                        ELSE log1
                rest == Tail(p_devices)
            IN  IF r.exc # "none" THEN PublisherEnds("raised", log1)
                ELSE IF rest # <<>>
                THEN /\ p_devices' = rest
                     /\ p_log' = log2
                     /\ UNCHANGED <<p_pc, p_result, p_idx, p_new_timestamp>>
                ELSE PublisherMoves(NextHub(log2, p_idx))
    /\ UNCHANGED <<hostVars, history, decoded, hass_interval, lifecycle, session, schedVars, changes,
                   dataVars, discVars, observed>>

\* ------------------------------------------------------------ pulseapp.py
\* get_state(entity) or DEFAULT, as initialize of pulseapp.py and of
\* pulse_sensors.py read an interval.
interval_or(entity, default) ==
    IF hass_interval[entity] = 0 THEN default ELSE hass_interval[entity]

\* PulseApp.initialize of pulseapp.py
pulseapp_initialize ==
    /\ variant = "pulseapp"
    /\ lifecycle = "created"
    /\ IF ~plugins \/ ~api_key
       THEN \* RuntimeError, before the session exists
            InitFails /\ UNCHANGED session
       ELSE /\ session' = "open"
            /\ lifecycle' = "initialized"
            /\ state_update_job' = next_timer
            /\ discovery_job' = next_timer + 1
            /\ timers' =
                 run_in(
                   run_every(
                     run_every(timers, next_timer, "update_sensor_states",
                               interval_or(UPDATE_ENTITY, SENSOR_UPDATE_INTERVAL)),
                     next_timer + 1, "discover_hub_sensors",
                     interval_or(DISCOVERY_ENTITY, SENSOR_DISCOVERY_INTERVAL)),
                   next_timer + 2, "discover_hub_sensors", INITIAL_DISCOVERY_DELAY)
            /\ next_timer' = next_timer + 3
            /\ listeners' =
                 listen_state(listen_state(listeners, "update_intervals", UPDATE_ENTITY),
                              "update_intervals", DISCOVERY_ENTITY)
            /\ UNCHANGED <<hostVars, history, decoded, hass_interval, changes, cycleVars, dataVars>>

\* PulseApp.update_intervals of pulseapp.py
pulseapp_update_intervals(entity, new) ==
    IF entity = "input_number.sensor_update_interval"
    THEN << run_every(IF state_update_job # 0
                      THEN cancel_timer(timers, state_update_job) ELSE timers,
                      next_timer, "update_sensor_states", new),
            next_timer + 1, next_timer, discovery_job >>
    ELSE IF entity = "input_number.sensor_discovery_interval"
    THEN << run_every(IF discovery_job # 0
                      THEN cancel_timer(timers, discovery_job) ELSE timers,
                      next_timer, "discover_hub_sensors", new),
            next_timer + 1, state_update_job, next_timer >>
    ELSE << timers, next_timer, state_update_job, discovery_job >>

\* get_hub_ids of pulseapp.py and pulse_sensors.py: the body as it came.
get_hub_ids(resp) ==
    LET r == _make_pulse_api_request(resp)
    IN  [exc |-> r.exc, ret |-> IF r.exc = "none" /\ r.value.tag = "list" THEN r.value.ids ELSE <<>>]

\* discover_hub_sensors up to the call of _process_and_publish_hubs.
discover_hub_sensors ==
    /\ variant = "pulseapp"
    /\ lifecycle = "initialized"
    /\ d_pc = "idle"
    /\ p_pc = "idle"
    /\ \E t \in timers : t.callback = "discover_hub_sensors" /\ timers' = Fired(t)
    /\ observed' = {}
    /\ p_result' = "none"
    /\ p_log' = <<>>
    /\ \E resp \in ListedHubIdsResponses :
         /\ last_response' = Outcome(resp)
         /\ LET r == get_hub_ids(resp)
                events == << Get("/hubs/ids", 0, Result(r, <<>>)) >>
            IN  IF r.exc # "none" THEN DiscoveryEnds("raised", events)
                ELSE IF r.ret = <<>> THEN DiscoveryEnds("skipped", events)
                ELSE /\ d_pc' = "hubs"
                     /\ d_result' = "running"
                     /\ d_log' = events
                     /\ d_hub_ids' = r.ret
                     /\ UNCHANGED <<d_attrs, d_devices, d_hub, d_count, d_before>>
    /\ UNCHANGED <<hostVars, history, decoded, hass_interval, lifecycle, session, next_timer, listeners,
                   changes, state_update_job, discovery_job, dataVars, p_pc, p_idx,
                   p_devices, p_new_timestamp>>

\* The loop of _process_and_publish_hubs (pulseapp.py) is done with a hub: it
\* goes to the next hub id, or returns to discover_hub_sensors, which writes the
\* two entities of the host store.
HubLoopMoves(events, hubs, count, rest) ==
    IF rest # <<>>
    THEN /\ d_pc' = "hubs"
         /\ d_hub_ids' = rest
         /\ d_attrs' = hubs
         /\ d_count' = count
         /\ d_log' = events
         /\ d_devices' = <<>>
         /\ d_hub' = NoneHub
         /\ UNCHANGED <<d_result, d_before, store>>
    ELSE /\ store' = [store EXCEPT !.exists = TRUE, !.hubs = hubs, !.count = count]
         /\ DiscoveryEnds("completed",
                          events \o << Set("sensor.pulseapp_discovered_hubs"),
                                       Set("sensor.pulseapp_discovered_sensors") >>)

\* _process_and_publish_hubs of pulseapp.py, one hub id per step.
pulseapp_process_and_publish_hubs ==
    /\ variant = "pulseapp"
    /\ d_pc = "hubs"
    /\ p_pc = "idle"
    /\ \E resp \in HubResponses(Head(d_hub_ids)) :
         /\ last_response' = Outcome(resp)
         /\ LET hub_id == Head(d_hub_ids)
                r == _get_hub_details(resp)
                hub == r.ret
                uid == hub_unique_id(hub.id)
                log1 == Append(d_log, Get("/hubs/{id}", hub_id, Result(r, NoneHub)))
                log2 == Append(log1, Pub(ConfigTopic(uid), HubPayload(hub)))
            IN  IF r.exc # "none" THEN DiscoveryEnds("raised", log1) /\ UNCHANGED store
                ELSE IF hub = NoneHub
                THEN HubLoopMoves(log1, d_attrs, d_count, Tail(d_hub_ids))
                ELSE IF hub.sensorDevices = <<>>
                THEN HubLoopMoves(log2, Append(d_attrs, hub), d_count, Tail(d_hub_ids))
                ELSE /\ d_pc' = "devices"
                     /\ d_hub' = hub
                     /\ d_devices' = hub.sensorDevices
                     /\ d_log' = log2
                     /\ UNCHANGED <<d_hub_ids, d_attrs, d_count, d_result, d_before, store>>
    /\ UNCHANGED <<hostVars, history, decoded, hass_interval, lifecycle, session, schedVars, changes,
                   discovered_hubs, observed, pubVars>>

\* _process_device_components of pulseapp.py: the components and their count.
pulseapp_process_device_components(uid, latest) ==
    [components |-> _process_device_components(uid, latest),
     count |-> Len(latest.dataPointValues)]

\* _process_and_publish_devices of pulseapp.py, one device per step.
pulseapp_process_and_publish_devices ==
    /\ variant = "pulseapp"
    /\ d_pc = "devices"
    /\ p_pc = "idle"
    /\ \E resp \in SensorResponses :
         /\ last_response' = Outcome(resp)
         /\ LET device == Head(d_devices)
                r == get_sensor_latest_data(resp)
                latest == r.ret
                found == latest # NoneReading
                uid == device_unique_id(str_lower(SensorTypeName(latest.sensorType)), device)
                log1 == Append(d_log, Get("/sensors/{id}/recent-data", device,
                                         Result(r, NoneReading)))
                log2 == IF found
                        THEN Append(log1, Pub(ConfigTopic(uid),
                                              DevicePayload(uid, hub_unique_id(d_hub.id), latest)))
                        ELSE log1
                count1 == IF found
                          THEN d_count + pulseapp_process_device_components(uid, latest).count
                          ELSE d_count
                rest == Tail(d_devices)
            IN  IF r.exc # "none" THEN DiscoveryEnds("raised", log1) /\ UNCHANGED store
                ELSE IF rest # <<>>
                THEN /\ d_devices' = rest
                     /\ d_count' = count1
                     /\ d_log' = log2
                     /\ UNCHANGED <<d_pc, d_hub_ids, d_attrs, d_hub, d_result, d_before, store>>
                ELSE HubLoopMoves(log2, Append(d_attrs, d_hub), count1, Tail(d_hub_ids))
    /\ UNCHANGED <<hostVars, history, decoded, hass_interval, lifecycle, session, schedVars, changes,
                   discovered_hubs, observed, pubVars>>

\* update_sensor_states up to its first request: the "hubs" attribute of
\* sensor.pulseapp_discovered_hubs is read from the host store.
update_sensor_states ==
    /\ variant = "pulseapp"
    /\ lifecycle = "initialized"
    /\ d_pc = "idle"
    /\ p_pc = "idle"
    /\ \E t \in timers : t.callback = "update_sensor_states" /\ timers' = Fired(t)
    /\ last_response' = "none"
    /\ IF store.hubs = <<>>
       THEN PublisherEnds("skipped", <<>>)
       ELSE PublisherMoves(NextHubIn(store.hubs, <<>>, 0))
    /\ d_result' = "none"
    /\ d_log' = <<>>
    /\ observed' = {}
    /\ UNCHANGED <<hostVars, history, decoded, hass_interval, lifecycle, session, next_timer, listeners,
                   changes, state_update_job, discovery_job, dataVars, d_pc, d_hub_ids,
                   d_attrs, d_devices, d_hub, d_count, d_before>>

\* update_sensor_states, one device per step.
update_sensor_states_device ==
    /\ variant = "pulseapp"
    /\ p_pc = "running"
    /\ \E resp \in SensorResponses :
         /\ last_response' = Outcome(resp)
         /\ LET device_id == Head(p_devices)
                r == get_sensor_latest_data(resp)
                log1 == Append(p_log, Get("/sensors/{id}/recent-data", device_id,
                                         Result(r, NoneReading)))
                log2 == IF r.ret # NoneReading
                        THEN Append(log1, DeviceStateEvent(device_id, r.ret))
                        ELSE log1
                rest == Tail(p_devices)
            IN  IF r.exc # "none" THEN PublisherEnds("raised", log1)
                ELSE IF rest # <<>>
                THEN /\ p_devices' = rest
                     /\ p_log' = log2
                     /\ UNCHANGED <<p_pc, p_result, p_idx, p_new_timestamp>>
                ELSE PublisherMoves(NextHubIn(store.hubs, log2, p_idx))
    /\ UNCHANGED <<hostVars, history, decoded, hass_interval, lifecycle, session, schedVars, changes,
                   dataVars, discVars, observed>>

\* -------------------------------------------------------- pulse_sensors.py
\* PulseSensors.initialize: returns, with nothing registered, when there is no
\* API key.
PulseSensors_initialize ==
    /\ variant = "pulse_sensors"
    /\ lifecycle = "created"
    /\ IF ~api_key
       THEN /\ lifecycle' = "init_refused"
            /\ UNCHANGED <<hostVars, history, decoded, hass_interval, session, schedVars, changes,
                           cycleVars, dataVars>>
       ELSE /\ session' = "open"
            /\ lifecycle' = "initialized"
            /\ state_update_job' = next_timer
            /\ discovery_job' = next_timer + 1
            /\ timers' =
                 run_every(
                   run_every(timers, next_timer, "update_sensors",
                             interval_or(UPDATE_ENTITY, PULSE_SENSORS_UPDATE_INTERVAL)),
                   next_timer + 1, "discover_sensors",
                   interval_or(DISCOVERY_ENTITY, PULSE_SENSORS_DISCOVERY_INTERVAL))
            /\ next_timer' = next_timer + 2
            /\ listeners' =
                 listen_state(listen_state(listeners, "update_intervals", UPDATE_ENTITY),
                              "update_intervals", DISCOVERY_ENTITY)
            /\ UNCHANGED <<hostVars, history, decoded, hass_interval, changes, cycleVars, dataVars>>

\* PulseSensors.update_intervals
PulseSensors_update_intervals(entity, new) ==
    IF entity = "input_number.pulse_update_interval"
    THEN << run_every(cancel_timer(timers, state_update_job),
                      next_timer, "update_sensors", new),
            next_timer + 1, next_timer, discovery_job >>
    ELSE IF entity = "input_number.pulse_discover_interval"
    THEN << run_every(cancel_timer(timers, discovery_job),
                      next_timer, "discover_sensors", new),
            next_timer + 1, state_update_job, next_timer >>
    ELSE << timers, next_timer, state_update_job, discovery_job >>

\* discover_sensors up to its loop over the hub ids.
discover_sensors ==
    /\ variant = "pulse_sensors"
    /\ lifecycle = "initialized"
    /\ d_pc = "idle"
    /\ p_pc = "idle"
    /\ \E t \in timers : t.callback = "discover_sensors" /\ timers' = Fired(t)
    /\ observed' = {}
    /\ p_result' = "none"
    /\ p_log' = <<>>
    /\ \E resp \in ListedHubIdsResponses :
         /\ last_response' = Outcome(resp)
         /\ LET r == get_hub_ids(resp)
                events == << Get("/hubs/ids", 0, Result(r, <<>>)) >>
            IN  IF r.exc # "none" THEN DiscoveryEnds("raised", events)
                ELSE IF r.ret = <<>> THEN DiscoveryEnds("skipped", events)
                ELSE /\ d_pc' = "hubs"
                     /\ d_result' = "running"
                     /\ d_log' = events
                     /\ d_hub_ids' = r.ret
                     /\ UNCHANGED <<d_attrs, d_devices, d_hub, d_count, d_before>>
    /\ UNCHANGED <<hostVars, history, decoded, hass_interval, lifecycle, session, next_timer, listeners,
                   changes, state_update_job, discovery_job, dataVars, p_pc, p_idx,
                   p_devices, p_new_timestamp>>

\* get_hub_details of pulse_sensors.py, and what discover_sensors reads of the
\* body: hub_data.get(...) raises AttributeError on a body that is no dict; a
\* dict without the keys gives the default name and no sensors.
HubName(hub_id, given) == [hub |-> hub_id, given |-> given]
pulse_sensors_hub_data(hub_id, resp) ==
    LET r == _make_pulse_api_request(resp)
    IN  IF r.exc # "none" THEN [exc |-> r.exc, found |-> FALSE, name |-> HubName(hub_id, FALSE), sensors |-> <<>>]
        ELSE IF Falsy(r.value)
        THEN [exc |-> "none", found |-> FALSE, name |-> HubName(hub_id, FALSE), sensors |-> <<>>]
        ELSE IF r.value.tag # "dict"
        THEN [exc |-> "AttributeError", found |-> FALSE, name |-> HubName(hub_id, FALSE), sensors |-> <<>>]
        ELSE IF ~r.value.valid
        THEN [exc |-> "none", found |-> TRUE, name |-> HubName(hub_id, FALSE), sensors |-> <<>>]
        ELSE [exc |-> "none", found |-> TRUE, name |-> HubName(hub_id, TRUE),
              sensors |-> r.value.hub.sensorDevices]

\* discovered_sensors[sensor_id] = {...} for each sensor of the hub, in order.
RECURSIVE SensorsFrom(_, _, _)
SensorsFrom(discovered_sensors, hub_id, sensors) ==
    IF sensors = <<>> THEN discovered_sensors
    ELSE SensorsFrom(DictSet(discovered_sensors, Head(sensors), [hub_id |-> hub_id]),
                     hub_id, Tail(sensors))

\* discover_sensors, one hub id per step; after the last the two entities of
\* the host store are written.  d_attrs is the local discovered_hubs, d_devices
\* the local discovered_sensors.
discover_sensors_hub ==
    /\ variant = "pulse_sensors"
    /\ d_pc = "hubs"
    /\ p_pc = "idle"
    /\ \E resp \in HubResponses(Head(d_hub_ids)) :
         /\ last_response' = Outcome(resp)
         /\ LET hub_id == Head(d_hub_ids)
                r == pulse_sensors_hub_data(hub_id, resp)
                log1 == Append(d_log, Get("/hubs/{id}", hub_id,
                                         IF r.exc # "none" THEN r.exc
                                         ELSE IF r.found THEN "ok" ELSE "absent"))
                hubs1 == IF r.found THEN DictSet(d_attrs, hub_id, r.name) ELSE d_attrs
                sensors1 == SensorsFrom(d_devices, hub_id, r.sensors)
                rest == Tail(d_hub_ids)
            IN  IF r.exc # "none" THEN DiscoveryEnds("raised", log1) /\ UNCHANGED store
                ELSE IF rest # <<>>
                THEN /\ d_hub_ids' = rest
                     /\ d_attrs' = hubs1
                     /\ d_devices' = sensors1
                     /\ d_log' = log1
                     /\ UNCHANGED <<d_pc, d_hub, d_count, d_result, d_before, store>>
                ELSE /\ store' = [store EXCEPT !.exists = TRUE, !.hubs = hubs1,
                                               !.sensors = sensors1]
                     /\ DiscoveryEnds("completed",
                                      log1 \o << Set("sensor.pulse_discovered_hubs"),
                                                 Set("sensor.pulse_discovered_sensors") >>)
    /\ UNCHANGED <<hostVars, history, decoded, hass_interval, lifecycle, session, schedVars, changes,
                   discovered_hubs, observed, pubVars>>

\* strftime("%Y-%m-%dT%H:%M:%SZ") writes the instant and drops the zone;
\* strptime of that text gives a datetime without a zone.
strftime(dt) == dt.t
strptime(text) == datetime(text, FALSE)
\* a > b on datetimes: TypeError when only one of them carries a zone.
Later(a, b) ==
    IF a.aware # b.aware THEN [exc |-> "TypeError", ret |-> FALSE]
    ELSE [exc |-> "none", ret |-> a.t > b.t]

\* update_sensors: last_update, from input_text.pulse_last_update (0: not set)
\* or datetime.now(timezone.utc) - timedelta(hours=1).
last_update ==
    IF store.last_update # 0 THEN strptime(store.last_update)
    ELSE datetime(HourAgo, TRUE)

SetState(entity, state) == [op |-> "SET", entity |-> entity, state |-> state]
\* LAST_TIMESTAMP_ENTITY = "input_text.pulse_last_update", in the form of the
\* entity names that state_key builds.
LAST_TIMESTAMP_ENTITY == [prefix |-> "input_text.pulse_last_update", id |-> 0, param |-> <<>>]
\* A build that lowers the case of the name and keeps its spaces.
sensor_key_keeping_spaces(name) == str_lower(name)

\* sensor_key = param_name.lower().replace(" ", "_")
sensor_key(name) == str_replace_space(str_lower(name))
\* f"sensor.pulse_{sensor_id}_{sensor_key}"
state_key(sensor_id, name) ==
    [prefix |-> "sensor.pulse", id |-> sensor_id, param |-> sensor_key(name)]

\* for i, timestamp in enumerate(timestamps): the entries from index i on.  acc
\* is [exc, new_timestamp, events].
RECURSIVE EntriesFrom(_, _, _, _, _, _)
EntriesFrom(acc, sensor_id, name, values, timestamps, i) ==
    IF i > Len(timestamps) THEN acc
    ELSE LET entry_time == datetime(timestamps[i], TRUE)
             later == Later(entry_time, acc.new_timestamp)
         IN  IF later.exc # "none"
             THEN [acc EXCEPT !.exc = later.exc]
             ELSE EntriesFrom(
                    [acc EXCEPT !.new_timestamp = IF later.ret THEN entry_time ELSE @,
                                !.events = Append(@, SetState(state_key(sensor_id, name),
                                                              values[i].value))],
                    sensor_id, name, values, timestamps, i + 1)

\* for metadata in response["dataPointValues"]: a parameter whose values do not
\* parse as numbers, or do not match the timestamps in number, is skipped.
RECURSIVE ParamsFrom(_, _, _, _)
ParamsFrom(acc, sensor_id, params, timestamps) ==
    IF params = <<>> \/ acc.exc # "none" THEN acc
    ELSE LET metadata == Head(params)
             values == metadata.ParamValues
             parsed == \A i \in 1..Len(values) : values[i].numeric
         IN  IF ~parsed \/ Len(values) # Len(timestamps)
             THEN ParamsFrom(acc, sensor_id, Tail(params), timestamps)
             ELSE ParamsFrom(EntriesFrom(acc, sensor_id, metadata.ParamName, values,
                                         timestamps, 1),
                             sensor_id, Tail(params), timestamps)

\* The instants of the entries of a usable response that update_sensors is to
\* record: those of dataPointValuesCreatedAt, when some parameter has numbers
\* for values, as many as there are timestamps.
EntryTimes(reading) ==
    LET timestamps == reading.dataPointValuesCreatedAt
        params == reading.dataPointValues
    IN  IF \E k \in 1..Len(params) :
              /\ Len(params[k].ParamValues) = Len(timestamps)
              /\ \A i \in 1..Len(timestamps) : params[k].ParamValues[i].numeric
        THEN { timestamps[i] : i \in 1..Len(timestamps) }
        ELSE {}
\* The entities of the parameters of a usable response whose values differ in
\* number from the timestamps.
MismatchedKeys(sensor_id, reading) ==
    { state_key(sensor_id, reading.dataPointValues[k].ParamName) :
        k \in { j \in 1..Len(reading.dataPointValues) :
                 Len(reading.dataPointValues[j].ParamValues)
                   # Len(reading.dataPointValuesCreatedAt) } }

\* The end of update_sensors: the timestamp entity is written when new_timestamp
\* is later than last_update.
UpdateSensorsEnds(new_timestamp, events) ==
    IF Later(new_timestamp, last_update).ret
    THEN /\ store' = [store EXCEPT !.last_update = strftime(new_timestamp)]
         /\ PublisherEnds("completed",
                          Append(events, SetState(LAST_TIMESTAMP_ENTITY,
                                                  strftime(new_timestamp))))
    ELSE /\ PublisherEnds("completed", events)
         /\ UNCHANGED store

\* update_sensors up to its first request.
update_sensors ==
    /\ variant = "pulse_sensors"
    /\ lifecycle = "initialized"
    /\ d_pc = "idle"
    /\ p_pc = "idle"
    /\ \E t \in timers : t.callback = "update_sensors" /\ timers' = Fired(t)
    /\ last_response' = "none"
    /\ IF ~store.exists
       THEN PublisherEnds("skipped", <<>>) /\ UNCHANGED store
       ELSE IF store.sensors = <<>>
       THEN UpdateSensorsEnds(last_update, <<>>)
       ELSE /\ p_pc' = "running"
            /\ p_result' = "running"
            /\ p_log' = <<>>
            /\ p_devices' = [i \in 1..Len(store.sensors) |-> store.sensors[i].key]
            /\ p_new_timestamp' = last_update
            /\ UNCHANGED <<p_idx, store>>
    /\ d_result' = "none"
    /\ d_log' = <<>>
    /\ observed' = {}
    /\ history' = [history EXCEPT !.fetched = {}, !.skipped = {}]
    /\ UNCHANGED <<hostVars, decoded, hass_interval, lifecycle, session, next_timer, listeners,
                   changes, state_update_job, discovery_job, discovered_hubs, d_pc,
                   d_hub_ids, d_attrs, d_devices, d_hub, d_count, d_before>>

\* update_sensors, one sensor per step.
update_sensors_sensor ==
    /\ variant = "pulse_sensors"
    /\ p_pc = "running"
    /\ \E resp \in RangeResponses :
         /\ last_response' = Outcome(resp)
         /\ LET sensor_id == Head(p_devices)
                r == _make_pulse_api_request(resp)
                usable == /\ r.exc = "none"
                          /\ r.value.tag = "dict"
                          /\ r.value.valid
                          /\ r.value.reading.dataPointValuesCreatedAt # <<>>
                acc == IF usable
                       THEN ParamsFrom([exc |-> "none", new_timestamp |-> p_new_timestamp,
                                        events |-> <<>>],
                                       sensor_id, r.value.reading.dataPointValues,
                                       r.value.reading.dataPointValuesCreatedAt)
                       ELSE [exc |-> r.exc, new_timestamp |-> p_new_timestamp, events |-> <<>>]
                log1 == Append(p_log, Get("/sensors/{id}/data-range", sensor_id,
                                         IF acc.exc # "none" THEN acc.exc
                                         ELSE IF usable THEN "ok" ELSE "absent"))
                         \o acc.events
                rest == Tail(p_devices)
            IN  /\ history' =
                     IF history.run /\ usable
                     THEN [history EXCEPT
                             !.fetched = @ \cup EntryTimes(r.value.reading),
                             !.skipped = @ \cup MismatchedKeys(sensor_id, r.value.reading)]
                     ELSE history
                /\ IF acc.exc # "none"
                   THEN PublisherEnds("raised", log1) /\ UNCHANGED store
                   ELSE IF rest # <<>>
                   THEN /\ p_devices' = rest
                        /\ p_new_timestamp' = acc.new_timestamp
                        /\ p_log' = log1
                        /\ UNCHANGED <<p_pc, p_result, p_idx, store>>
                   ELSE UpdateSensorsEnds(acc.new_timestamp, log1)
    /\ UNCHANGED <<hostVars, decoded, hass_interval, lifecycle, session, schedVars, changes,
                   discovered_hubs, discVars, observed>>

\* ------------------------------------------------- the host's state events
\* The user changes one of the two input_number entities while the app runs;
\* the host calls the listener registered for that entity, if there is one.
IntervalChanged ==
    /\ lifecycle = "initialized"
    /\ d_pc = "idle"
    /\ p_pc = "idle"
    /\ changes < MaxChanges
    /\ \E entity \in Entities, new \in Intervals :
         /\ new # hass_interval[entity]
         /\ hass_interval' = [hass_interval EXCEPT ![entity] = new]
         /\ IF [callback |-> "update_intervals", entity |-> entity] \in listeners
            THEN LET after == CASE variant = "app" -> update_intervals(entity, new)
                                [] variant = "pulseapp" ->
                                     pulseapp_update_intervals(entity, new)
                                [] variant = "pulse_sensors" ->
                                     PulseSensors_update_intervals(entity, new)
                 IN  /\ timers' = after[1]
                     /\ next_timer' = after[2]
                     /\ state_update_job' = after[3]
                     /\ discovery_job' = after[4]
            ELSE UNCHANGED <<timers, next_timer, state_update_job, discovery_job>>
    /\ changes' = changes + 1
    /\ UNCHANGED <<hostVars, history, decoded, lifecycle, session, listeners, cycleVars, dataVars>>

AppIntervalChanged ==
    /\ variant = "app"
    /\ IntervalChanged

PulseSensorsIntervalChanged ==
    /\ variant = "pulse_sensors"
    /\ IntervalChanged

PulseAppIntervalChanged ==
    /\ variant = "pulseapp"
    /\ IntervalChanged

\* ---------------------------------------------------------- specifications
\* app.py, its callbacks run one at a time.
Init == InitOf({"app"})

Next ==
    \/ initialize
    \/ AppIntervalChanged
    \/ hub_device_discovery
    \/ _process_and_publish_hubs
    \/ _process_and_publish_devices
    \/ hub_sensor_updates
    \/ hub_sensor_updates_device

Spec == Init /\ [][Next]_vars

\* app.py, with a state-publish callback allowed to run while a discovery cycle
\* waits for a response (the host does not keep the two callbacks apart; the
\* publisher then runs to its end before the cycle goes on).
hub_sensor_updates_overlapping ==
    /\ d_pc # "idle"
    /\ PublisherBegins
    /\ observed' = IF discovered_hubs # d_before
                   THEN observed \cup { discovered_hubs } ELSE observed
    /\ history' = HistoryAtPublish
    /\ UNCHANGED decoded
    /\ UNCHANGED <<d_result, d_log, d_before>>

InitOverlap ==
    /\ Init
    /\ plugins
    /\ api_key
    /\ \A e \in Entities : hass_interval[e] # 0

NextOverlap ==
    \/ initialize
    \/ hub_device_discovery
    \/ _process_and_publish_hubs
    \/ _process_and_publish_devices
    \/ hub_sensor_updates
    \/ hub_sensor_updates_overlapping
    \/ hub_sensor_updates_device

SpecOverlap == InitOverlap /\ [][NextOverlap]_vars

\* app.py with the history recorded, for the properties that relate a cycle to
\* the cycle before it; the intervals stay as they are configured.
InitCycles ==
    /\ InitWith({"app"}, TRUE)
    /\ plugins
    /\ api_key
    /\ \A e \in Entities : hass_interval[e] # 0

NextCycles ==
    \/ initialize
    \/ hub_device_discovery
    \/ _process_and_publish_hubs
    \/ _process_and_publish_devices
    \/ hub_sensor_updates
    \/ hub_sensor_updates_device

SpecCycles == InitCycles /\ [][NextCycles]_vars

\* pulseapp.py
InitPulseApp == InitOf({"pulseapp"})

NextPulseApp ==
    \/ pulseapp_initialize
    \/ PulseAppIntervalChanged
    \/ discover_hub_sensors
    \/ pulseapp_process_and_publish_hubs
    \/ pulseapp_process_and_publish_devices
    \/ update_sensor_states
    \/ update_sensor_states_device

SpecPulseApp == InitPulseApp /\ [][NextPulseApp]_vars

\* pulse_sensors.py
InitPulseSensors == InitOf({"pulse_sensors"})

NextPulseSensors ==
    \/ PulseSensors_initialize
    \/ PulseSensorsIntervalChanged
    \/ discover_sensors
    \/ discover_sensors_hub
    \/ update_sensors
    \/ update_sensors_sensor

SpecPulseSensors == InitPulseSensors /\ [][NextPulseSensors]_vars

\* The three revisions.
InitAll == InitOf(Variants)
NextAll == Next \/ NextPulseApp \/ NextPulseSensors
SpecAll == InitAll /\ [][NextAll]_vars

\* ------------------------------------------------------------------ claims
IsGet(e, endpoint) == e.op = "GET" /\ e.endpoint = endpoint
HubGets(events) == { i \in 1..Len(events) : IsGet(events[i], "/hubs/{id}") }
SensorGets(events) ==
    { i \in 1..Len(events) : IsGet(events[i], "/sensors/{id}/recent-data") }
Failed(e) == e.result \in { "RequestError", "absent" }
DiscoveryEnded == d_pc = "idle" /\ d_result \in { "completed", "raised" }
PublisherEnded == p_pc = "idle" /\ p_result \in { "completed", "raised" }

\* C1: a discovery cycle over two or more hub ids in which exactly one hub fetch
\* fails (the request fails, or the body is rejected) and no device fetch raises
\* ends without raising, and every hub fetched successfully is in the snapshot.
C1_DiscoveryIsolatesHubFailure ==
    ( /\ DiscoveryEnded
      /\ Cardinality(HubGets(d_log)) >= 2
      /\ Cardinality({ i \in HubGets(d_log) : Failed(d_log[i]) }) = 1
      /\ \A i \in HubGets(d_log) : d_log[i].result # "TypeError"
      /\ \A i \in SensorGets(d_log) : d_log[i].result \in { "ok", "absent" } )
    => ( /\ d_result = "completed"
         /\ \A i \in HubGets(d_log) :
              d_log[i].result = "ok"
              => hub_unique_id(d_log[i].id) \in DictKeys(discovered_hubs) )

\* The device ids of the snapshot.
SnapshotDevices ==
    UNION { { discovered_hubs[h].value.sensorDevices[i] :
                i \in 1..Len(discovered_hubs[h].value.sensorDevices) } :
            h \in 1..Len(discovered_hubs) }
PublishesStateOf(events, i) ==
    /\ i < Len(events)
    /\ events[i + 1].op = "PUB"
    /\ events[i + 1].topic.leaf = "state"
    /\ events[i + 1].topic.id.id = events[i].id

\* C2: a state-publish cycle over two or more devices in which a device fetch fails (the request fails,
\* or the body is rejected) ends without raising, fetches every device of the
\* snapshot, and publishes a state message for exactly the devices whose fetch
\* succeeded.
C2_PublishIsolatesDeviceFailure ==
    ( /\ PublisherEnded
      /\ Cardinality(SnapshotDevices) >= 2
      /\ \E i \in SensorGets(p_log) : Failed(p_log[i])
      /\ \A i \in SensorGets(p_log) : p_log[i].result # "TypeError" )
    => ( /\ p_result = "completed"
         /\ \A dev \in SnapshotDevices : \E i \in SensorGets(p_log) : p_log[i].id = dev
         /\ \A i \in SensorGets(p_log) :
              p_log[i].result = "ok" <=> PublishesStateOf(p_log, i) )

\* C3: when a discovery cycle that fetched a hub completes, the keys of the
\* topology snapshot are the hubs that cycle fetched, and no others.
C3_SnapshotSuperseded ==
    ( /\ d_pc = "idle"
      /\ d_result = "completed"
      /\ \E i \in HubGets(d_log) : d_log[i].result = "ok" )
    => DictKeys(discovered_hubs) =
         { hub_unique_id(d_log[i].id) : i \in { j \in HubGets(d_log) : d_log[j].result = "ok" } }

\* C4: every snapshot a state-publish callback read while a discovery cycle ran
\* is the snapshot from before the cycle or the snapshot the completed cycle
\* leaves (observed holds the snapshots read other than the one from before).
C4_NoPartialSnapshotObserved ==
    (d_pc = "idle" /\ d_result = "completed")
    => \A snapshot \in observed : snapshot = discovered_hubs

\* What the state-publish callback of each revision tests before its loop.
NoSnapshot ==
    CASE variant = "app" -> discovered_hubs = <<>>
      [] variant = "pulseapp" -> store.hubs = <<>>
      [] variant = "pulse_sensors" -> ~store.exists

\* C5: in each of the three revisions, a state-publish callback that finds no
\* topology snapshot ends as "skipped" and has issued no request, published no
\* message and written no state.
C5_PublishWithoutSnapshotIsNoOp ==
    (p_pc = "idle" /\ p_result # "none" /\ NoSnapshot)
    => (p_result = "skipped" /\ p_log = <<>> /\ store.last_update = 0)

C5_PublishedWithoutSnapshot ==
    /\ p_result = "skipped"
    /\ NoSnapshot
    /\ d_result = "none"

PeriodicTimers(callback) == { t \in timers : t.every /\ t.callback = callback }

\* The job an interval entity is for: its callback, its handle before and after
\* the step.
JobOf(entity) ==
    IF entity = DISCOVERY_ENTITY
    THEN [callback |-> "hub_device_discovery", old |-> discovery_job, new |-> discovery_job']
    ELSE [callback |-> "hub_sensor_updates", old |-> state_update_job, new |-> state_update_job']

\* C6: in app.py, when one of the two interval entities changes, update_intervals
\* cancels the timer of that entity's job, schedules exactly one new timer of
\* that job at the new interval and keeps its handle, and leaves the handle and
\* the timer of the other job as they were.
C6_UpdateIntervalsReplacesOneTimer ==
    [][ \A e \in Entities :
          ( /\ variant = "app"
            /\ lifecycle = "initialized"
            /\ hass_interval'[e] # hass_interval[e] )
          => LET job == JobOf(e)
                 other == JobOf(CHOOSE o \in Entities : o # e)
             IN  /\ \A t \in timers' : t.id # job.old
                 /\ timers' \ timers =
                      { [id |-> job.new, callback |-> job.callback,
                         interval |-> hass_interval'[e], every |-> TRUE] }
                 /\ \A t \in timers \ timers' : t.id = job.old
                 /\ \E t \in timers : t.id = job.old
                 /\ other.new = other.old
                 /\ \E t \in timers' : t.id = other.old /\ t \in timers ]_vars

C6_DiscoveryIntervalChanged ==
    /\ variant = "app"
    /\ lifecycle = "initialized"
    /\ changes > 0
    /\ hass_interval[DISCOVERY_ENTITY] = 120
    /\ discovery_job > 3

\* C7: once initialize has returned, and after any interval changes, each of
\* the two periodic jobs has exactly one active timer, held by its handle and
\* running at the entity's current value, and the only other timer there can
\* be is the one-shot discovery.
C7_OneTimerPerJob ==
    (variant = "app" /\ lifecycle = "initialized")
    => /\ PeriodicTimers("hub_sensor_updates") =
            { [id |-> state_update_job, callback |-> "hub_sensor_updates",
               interval |-> hass_interval[UPDATE_ENTITY], every |-> TRUE] }
       /\ PeriodicTimers("hub_device_discovery") =
            { [id |-> discovery_job, callback |-> "hub_device_discovery",
               interval |-> hass_interval[DISCOVERY_ENTITY], every |-> TRUE] }
       /\ \A t \in timers :
            ~t.every => /\ t.callback = "hub_device_discovery"
                        /\ t.interval = INITIAL_DISCOVERY_DELAY
       /\ Cardinality(timers) <= 3

C7_IntervalsChangedTwice ==
    /\ variant = "app"
    /\ lifecycle = "initialized"
    /\ changes = MaxChanges
    /\ state_update_job > 3
    /\ discovery_job > 3

\* C8: once PulseSensors is initialized, the update timer runs at the current
\* value of input_number.sensor_update_interval and the discovery timer at the
\* current value of input_number.sensor_discovery_interval, whenever the entity
\* has a value.
C8_PulseSensorsFollowsItsEntities ==
    (variant = "pulse_sensors" /\ lifecycle = "initialized")
    => /\ hass_interval[UPDATE_ENTITY] # 0
            => \A t \in PeriodicTimers("update_sensors") :
                  t.interval = hass_interval[UPDATE_ENTITY]
       /\ hass_interval[DISCOVERY_ENTITY] # 0
            => \A t \in PeriodicTimers("discover_sensors") :
                  t.interval = hass_interval[DISCOVERY_ENTITY]

\* C9: in each revision, with no API credential in the host store nothing is
\* ever registered (no timer, no listener), no session is opened and no request
\* is issued.
C9_NoCredentialNoActivity ==
    ~api_key => /\ timers = {}
                /\ listeners = {}
                /\ session = "none"
                /\ d_log = <<>>
                /\ p_log = <<>>

C9_RefusedToInitialize ==
    /\ ~api_key
    /\ plugins
    /\ lifecycle \in { "init_failed", "init_refused" }

\* The events of the callbacks, the discovery's first.
CycleLog == d_log \o p_log
LatestGet(i) ==
    /\ CycleLog[i].op = "GET"
    /\ \A j \in (i + 1)..Len(CycleLog) : CycleLog[j].op # "GET"

\* C10: when the latest response to a hub or device fetch is a non-empty body
\* that is not the expected record (a list, a scalar, a dict of another shape),
\* the fetch returned absent and did not raise.
C10_MismatchedBodyIsAbsent ==
    \A i \in 1..Len(CycleLog) :
        ( /\ LatestGet(i)
          /\ CycleLog[i].endpoint \in { "/hubs/{id}", "/sensors/{id}/recent-data" }
          /\ last_response \in { "bad_dict", "list", "scalar" } )
        => CycleLog[i].result = "absent"

\* C11: in app.py, when GET /hubs/ids is answered with an empty body (null, an
\* empty list) or a non-empty body that is no list, _discover_hub_ids returns an
\* empty list without raising and the discovery callback returns at once: that
\* request is its only event (no hub or device fetch, no publication, no state
\* written) and the snapshot and the host store are as they were.
C11_EmptyListingShortCircuits ==
    [][ ( /\ d_pc = "idle"
          /\ Len(d_log') = 1
          /\ IsGet(d_log'[1], "/hubs/ids")
          /\ last_response' \in { "empty", "scalar", "bad_dict" } )
        => ( /\ d_log'[1].result = "absent"
             /\ d_pc' = "idle"
             /\ d_result' = "skipped"
             /\ discovered_hubs' = discovered_hubs
             /\ store' = store ) ]_vars

C11_ListingWasNoList ==
    /\ d_result = "skipped"
    /\ Len(d_log) = 1
    /\ last_response = "scalar"
    /\ discovered_hubs # <<>>

\* The topology snapshot of each revision: self.discovered_hubs of app.py and
\* the discovery entities of the host store.
TopologySnapshot == <<discovered_hubs, store.exists, store.hubs, store.sensors, store.count>>

\* C12: in each revision, no step of a state-publish callback (its beginning,
\* each of its device fetches, its end, normal or by an exception) changes the
\* topology snapshot.
C12_PublishKeepsSnapshot ==
    [][ ( \/ p_pc = "running"
          \/ p_pc' = "running"
          \/ (p_result' # "none" /\ <<p_result, p_log>> # <<p_result', p_log'>>) )
        => TopologySnapshot' = TopologySnapshot ]_vars

C12_PublishedWithFailedFetch ==
    /\ PublisherEnded
    /\ TopologySnapshot # <<<<>>, FALSE, <<>>, <<>>, 0>>
    /\ \E i \in 1..Len(p_log) : p_log[i].op = "GET" /\ p_log[i].result = "ok"
    /\ \E i \in 1..Len(p_log) : p_log[i].op = "GET" /\ p_log[i].result # "ok"

\* The discovery announcements (config topics) in a sequence of events.
ConfigPubs(events) ==
    { i \in 1..Len(events) : events[i].op = "PUB" /\ events[i].topic.leaf = "config" }
AllFetched(events) ==
    \A i \in 1..Len(events) : events[i].op = "GET" => events[i].result = "ok"
HubsFetched(events) == { hub_unique_id(events[i].id) : i \in HubGets(events) }

\* C13: when a discovery cycle of app.py in which every fetch succeeded has
\* completed, each hub it fetched is in the snapshot once, with as many device
\* entries as the hub has devices, and the cycle announced each of those
\* devices once, no two announcements under the same config topic; and when the
\* snapshot held those same hubs before the cycle (discovery run again on the
\* same responses), the snapshot after it is identical to the one before.
C13_RediscoveryIsIdempotent ==
    ( /\ variant = "app"
      /\ d_pc = "idle"
      /\ d_result = "completed"
      /\ AllFetched(d_log) )
    => ( /\ \A i \in HubGets(d_log) :
              LET key == hub_unique_id(d_log[i].id)
                  entries == { j \in 1..Len(discovered_hubs) : discovered_hubs[j].key = key }
              IN  /\ Cardinality(entries) = 1
                  /\ \A j \in entries :
                       Len(discovered_hubs[j].value.sensorDevices) = NumDevicesOf(d_log[i].id)
                  /\ Cardinality({ p \in ConfigPubs(d_log) :
                                     /\ d_log[p].payload.device.model_id # <<"H","u","b">>
                                     /\ d_log[p].payload.device.via_device = key })
                       = NumDevicesOf(d_log[i].id)
         /\ \A p, q \in ConfigPubs(d_log) : d_log[p].topic = d_log[q].topic => p = q
         /\ DictKeys(d_before) = HubsFetched(d_log) => discovered_hubs = d_before )

C13_DiscoveredAgain ==
    /\ variant = "app"
    /\ d_pc = "idle"
    /\ d_result = "completed"
    /\ AllFetched(d_log)
    /\ Len(d_before) = MaxHubs
    /\ DictKeys(d_before) = HubsFetched(d_log)

\* The device announcements and the device state messages in a sequence of
\* events (a hub's messages carry the type "hub").
DevicePubs(events, leaf) ==
    { i \in 1..Len(events) : /\ events[i].op = "PUB"
                             /\ events[i].topic.leaf = leaf
                             /\ events[i].topic.id.type # <<"h","u","b">> }
\* The metrics in a sequence of events, each with the identifier it goes under:
\* for a state message the device of its topic and the key of the payload
\* entry, for an announcement the unique_id of the component.
MetricIds(events) ==
    UNION { { [device |-> events[i].topic.id.id,
               type |-> events[i].topic.id.type,
               param |-> events[i].payload[n].key,
               identifier |-> [device |-> events[i].topic.id,
                               param |-> events[i].payload[n].key]] :
              n \in 1..Len(events[i].payload) } : i \in DevicePubs(events, "state") }
    \cup
    UNION { { [device |-> events[i].topic.id.id,
               type |-> events[i].topic.id.type,
               param |-> events[i].payload.components[n].value.value_template,
               identifier |-> events[i].payload.components[n].value.unique_id] :
              n \in 1..Len(events[i].payload.components) } :
            i \in DevicePubs(events, "config") }
water_content == <<"w","a","t","e","r","_","c","o","n","t","e","n","t">>
vwc1 == <<"v","w","c","1">>

StatePubsOf(events, i) ==
    { j \in DevicePubs(events, "state") : events[j].topic.id.id = events[i].id }
\* The readings that report the sensor type a state message is published under.
ReadingsOfType(type) == { r \in Readings : str_lower(SensorTypeName(r.sensorType)) = type }

\* C15 as stated: every device fetched successfully in a state-publish cycle of
\* app.py gets exactly one state message, right after its fetch, and the
\* payload has one entry per data point of the reading: the normalized name of
\* the data point with the value of the data point.
C15_OneEntryPerDataPoint ==
    \A i \in SensorGets(p_log) :
        p_log[i].result = "ok"
        => /\ PublishesStateOf(p_log, i)
           /\ Cardinality(StatePubsOf(p_log, i)) = 1
           /\ \E r \in ReadingsOfType(p_log[i + 1].topic.id.type) :
                LET points == r.dataPointValues
                    payload == p_log[i + 1].payload
                IN  /\ Len(payload) = Len(points)
                    /\ \A n \in 1..Len(points) :
                         \E k \in 1..Len(payload) :
                            payload[k] = [key |-> param_name(points[n].ParamName),
                                          value |-> points[n].ParamValue]

\* C15 as amended: every device fetched successfully in a state-publish cycle
\* of app.py gets exactly one state message, right after its fetch, and the
\* payload has one entry per distinct normalized name among the data points of
\* the reading, holding the value of the last data point of that name.
C15_OneEntryPerName ==
    \A i \in SensorGets(p_log) :
        p_log[i].result = "ok"
        => /\ PublishesStateOf(p_log, i)
           /\ Cardinality(StatePubsOf(p_log, i)) = 1
           /\ \E r \in ReadingsOfType(p_log[i + 1].topic.id.type) :
                LET points == r.dataPointValues
                    payload == p_log[i + 1].payload
                    names == { param_name(points[n].ParamName) : n \in 1..Len(points) }
                    last(name) == CHOOSE n \in 1..Len(points) :
                                     /\ param_name(points[n].ParamName) = name
                                     /\ \A m \in (n + 1)..Len(points) :
                                          param_name(points[m].ParamName) # name
                IN  /\ Len(payload) = Cardinality(names)
                    /\ \A name \in names :
                         \E k \in 1..Len(payload) :
                            payload[k] = [key |-> name, value |-> points[last(name)].ParamValue]

C15_PublishedTwoPointsOfOneName ==
    /\ p_result = "completed"
    /\ \E i \in SensorGets(p_log) :
         /\ PublishesStateOf(p_log, i)
         /\ p_log[i + 1].topic.id.type = vwc1
         /\ p_log[i + 1].payload = << [key |-> water_content, value |-> 425] >>

\* The request for an item is among the events.
Requested(events, item) ==
    \E i \in 1..Len(events) : IsGet(events[i], item.endpoint) /\ events[i].id = item.id
OneRequestPerItem(events) ==
    \A i, j \in 1..Len(events) :
        ( /\ events[i].op = "GET"
          /\ events[j].op = "GET"
          /\ events[i].endpoint = events[j].endpoint
          /\ events[i].id = events[j].id ) => i = j

\* C16: in a discovery cycle of app.py no hub and no device is requested twice,
\* in a state-publish cycle no device is requested twice, whether the request
\* failed or not; and when a cycle has ended, every request that failed in the
\* cycle of the same kind before it has been made again in it (for a listing
\* without repeated hub ids).
C16_NoRetryButNextCycleRetries ==
    /\ OneRequestPerItem(d_log)
    /\ OneRequestPerItem(p_log)
    /\ (d_pc = "idle" /\ d_result \in { "skipped", "completed", "raised" })
       => \A item \in history.due : Requested(d_log, item)
    /\ (p_pc = "idle" /\ p_result \in { "skipped", "completed", "raised" })
       => \A item \in history.due : Requested(p_log, item)

\* C17: in each revision, when the latest request was answered with a non-2xx
\* status, the API client raised, as for a transport failure: the body was not
\* handed to the caller.
C17_NonOkStatusIsTransportFailure ==
    \A i \in 1..Len(CycleLog) :
        (LatestGet(i) /\ last_response = "http_error")
        => CycleLog[i].result = "RequestError"

\* ------------------------------------------------- models.py: the decoders
\* The enumerations, each as the set of the values of its members.  An IntEnum
\* called with a value that no member has calls _missing_, and raises
\* ValueError when the class defines none.
UNKNOWN == -1
DeviceTypeMembers == (0..5) \cup { UNKNOWN }
SensorTypeMembers == (0..5) \cup (8..13) \cup { UNKNOWN }
SensorReadingTypeMembers == (0..25) \cup { UNKNOWN }
ThresholdTypeMembers == (1..8) \cup { 11, 12 }
DeviceType(code) ==
    Decoded("DeviceType", code, FALSE, IF code \in DeviceTypeMembers THEN code ELSE UNKNOWN)
SensorType(code) ==
    Decoded("SensorType", code, FALSE, IF code \in SensorTypeMembers THEN code ELSE UNKNOWN)
SensorReadingType(code) ==
    Decoded("SensorReadingType", code, FALSE,
            IF code \in SensorReadingTypeMembers THEN code ELSE UNKNOWN)
\* ThresholdType has no UNKNOWN member and no _missing_.
ThresholdType(code) ==
    IF code \in ThresholdTypeMembers
    THEN Decoded("ThresholdType", code, FALSE, code)
    ELSE Decoded("ThresholdType", code, TRUE, code)
MembersOf(enumeration) ==
    CASE enumeration = "DeviceType" -> DeviceTypeMembers
      [] enumeration = "SensorType" -> SensorTypeMembers
      [] enumeration = "SensorReadingType" -> SensorReadingTypeMembers
      [] enumeration = "ThresholdType" -> ThresholdTypeMembers

\* The integer codes the vendor may send.
MaxCode == 27
Codes == (-MaxCode)..MaxCode

\* A key of a JSON object: missing, present with null, or present with a value.
JsonField(present, null, value) == [present |-> present, null |-> null, value |-> value]
Missing == JsonField(FALSE, FALSE, 0)
Null == JsonField(TRUE, TRUE, 0)
JsonFields == { Missing, Null, JsonField(TRUE, FALSE, 0), JsonField(TRUE, FALSE, 5) }
\* A Python value of type X | None.
Optional(none, value) == [none |-> none, value |-> value]
None == Optional(TRUE, 0)
\* HubThreshold, cut to its three fields of type X | None.  None of them has a
\* default, so pydantic requires the key (hub.model_dump() in app.py is the
\* API of pydantic 2): a missing key is a ValidationError, a null is None.
HubThresholdJson ==
    [lowThresholdValue : JsonFields, highThresholdValue : JsonFields, day : JsonFields]
OptionalOf(field) == IF field.null THEN None ELSE Optional(FALSE, field.value)
NoneThreshold == [lowThresholdValue |-> None, highThresholdValue |-> None, day |-> None]
HubThreshold(json) ==
    IF \/ ~json.lowThresholdValue.present
       \/ ~json.highThresholdValue.present
       \/ ~json.day.present
    THEN Decoded("HubThreshold", json, TRUE, NoneThreshold)
    ELSE Decoded("HubThreshold", json, FALSE,
                 [lowThresholdValue |-> OptionalOf(json.lowThresholdValue),
                  highThresholdValue |-> OptionalOf(json.highThresholdValue),
                  day |-> OptionalOf(json.day)])
\* GET /hubs/{h} answered with the record of hub h whose only threshold is
\* json: HubDetails(**response) validates the thresholds with the hub.
HubResponseWith(h, json) ==
    IF HubThreshold(json).raised
    THEN Response("json", Body("dict", FALSE, <<>>, NoneHub, NoneReading))
    ELSE Response("json", Body("dict", TRUE, <<>>, HubDetails(h), NoneReading))

\* The parameter names a reading may carry: the four names of the table of
\* DeviceClass, the same in lower case and normalized, and two other names.
SoilPH == <<"S","o","i","l"," ","p","H">>
TableNames == { WordHumidity, Temperature, WaterContent, WordVPD }
ParamNames ==
    TableNames \cup { str_lower(name) : name \in TableNames }
    \cup { param_name(WaterContent), SoilPH, DewPoint }

programVars == <<variant, plugins, api_key, hass_interval, lifecycle, session, timers,
                 next_timer, listeners, changes, state_update_job, discovery_job,
                 discovered_hubs, store, d_pc, d_hub_ids, d_attrs, d_devices, d_hub,
                 d_count, d_before, observed, d_result, d_log, p_pc, p_idx, p_devices,
                 p_new_timestamp, p_result, p_log, last_response, history>>

\* One step per decoder, on any input of its domain.
DecodeDeviceType ==
    /\ \E code \in Codes : decoded' = DeviceType(code)
    /\ UNCHANGED programVars
DecodeSensorType ==
    /\ \E code \in Codes : decoded' = SensorType(code)
    /\ UNCHANGED programVars
DecodeSensorReadingType ==
    /\ \E code \in Codes : decoded' = SensorReadingType(code)
    /\ UNCHANGED programVars
DecodeThresholdType ==
    /\ \E code \in Codes : decoded' = ThresholdType(code)
    /\ UNCHANGED programVars
\* _get_hub_details on the record of a hub with one threshold.
DecodeHubDetails ==
    /\ \E h \in HubIds, json \in HubThresholdJson :
         LET r == _get_hub_details(HubResponseWith(h, json))
         IN  decoded' = Decoded("_get_hub_details", json, r.exc # "none",
                                [hub |-> r.ret, threshold |-> HubThreshold(json).value])
    /\ UNCHANGED programVars
\* _process_device_components on a reading with one data point of that name.
DecodeDeviceComponents ==
    /\ \E name \in ParamNames :
         decoded' = Decoded("_process_device_components", name, FALSE,
                            [hint |-> from_param_name(name),
                             components |->
                               _process_device_components(
                                 device_unique_id(vwc1, 11),
                                 [sensorType |-> 1,
                                  dataPointValues |-> << DataPointValue(name, 425, "%") >>])])
    /\ UNCHANGED programVars

\* The normalization of a parameter name where the three callbacks apply it:
\* discovery (the component's value_template), the state publisher of app.py
\* (the key of the payload) and update_sensors of pulse_sensors.py (the key of
\* the entity), each on a reading with one data point of that name.
DecodeParamName ==
    /\ \E name \in ParamNames :
         LET device_data == [sensorType |-> 1,
                             dataPointValues |-> << DataPointValue(name, 425, "%") >>]
             components == _process_device_components(device_unique_id(vwc1, 11), device_data)
             payload == _generate_sensor_payload(device_data)
         IN  decoded' = Decoded("param_name", name, FALSE,
                                [once |-> param_name(name),
                                 twice |-> param_name(param_name(name)),
                                 component |-> components[1].value.value_template,
                                 payload |-> payload[1].key,
                                 entity |-> state_key(11, name).param])
    /\ UNCHANGED programVars

InitModels == InitWith({"app"}, FALSE)
NextModels ==
    \/ DecodeDeviceType
    \/ DecodeSensorType
    \/ DecodeSensorReadingType
    \/ DecodeThresholdType
    \/ DecodeHubDetails
    \/ DecodeDeviceComponents
    \/ DecodeParamName
SpecModels == InitModels /\ [][NextModels]_vars

\* C18: decoding an integer outside the members of any of the four
\* enumerations yields the UNKNOWN member of that enumeration and does not raise.
C18_OutOfSetCodeDecodesToUnknown ==
    ( /\ decoded.op \in { "DeviceType", "SensorType", "SensorReadingType", "ThresholdType" }
      /\ decoded.input \notin MembersOf(decoded.op) )
    => /\ ~decoded.raised
       /\ decoded.value = UNKNOWN

\* C19: a hub record whose threshold lacks day, lowThresholdValue or
\* highThresholdValue decodes: the lacking field is None (not zero), and
\* _get_hub_details returns the hub.
C19_AbsentOptionalFieldDecodesToNone ==
    ( /\ decoded.op = "_get_hub_details"
      /\ \/ ~decoded.input.day.present
         \/ ~decoded.input.lowThresholdValue.present
         \/ ~decoded.input.highThresholdValue.present )
    => /\ ~decoded.raised
       /\ decoded.value.hub # NoneHub
       /\ ~decoded.input.day.present => decoded.value.threshold.day = None
       /\ ~decoded.input.lowThresholdValue.present
            => decoded.value.threshold.lowThresholdValue = None
       /\ ~decoded.input.highThresholdValue.present
            => decoded.value.threshold.highThresholdValue = None

\* C20: the device-class hint is an exact, case-sensitive lookup: Humidity
\* gives humidity, Temperature temperature, Water Content moisture, VPD
\* pressure, and any other name (Soil pH, a listed name in another case) gives
\* none; the component announced for the data point carries the hint as its
\* device_class.
C20_DeviceClassIsExactLookup ==
    decoded.op = "_process_device_components"
    => /\ decoded.input = <<"H","u","m","i","d","i","t","y">> => decoded.value.hint = "humidity"
       /\ decoded.input = <<"T","e","m","p","e","r","a","t","u","r","e">>
            => decoded.value.hint = "temperature"
       /\ decoded.input = <<"W","a","t","e","r"," ","C","o","n","t","e","n","t">>
            => decoded.value.hint = "moisture"
       /\ decoded.input = <<"V","P","D">> => decoded.value.hint = "pressure"
       /\ decoded.input \notin TableNames => decoded.value.hint = "none"
       /\ Len(decoded.value.components) = 1
       /\ decoded.value.components[1].value.name = decoded.input
       /\ decoded.value.components[1].value.device_class = decoded.value.hint

C20_LowerCaseNameHasNoHint ==
    /\ decoded.op = "_process_device_components"
    /\ decoded.input = <<"h","u","m","i","d","i","t","y">>
    /\ decoded.value.components[1].value.device_class = "none"

\* C21: the normalization of a parameter name gives the name in lower case
\* with each space replaced by an underscore; normalizing the result again
\* changes nothing; and discovery, the state publisher and update_sensors all
\* arrive at the same normalized name.
C21_NormalizationIsIdempotent ==
    decoded.op = "param_name"
    => LET x == decoded.input
           v == decoded.value
       IN  /\ Len(v.once) = Len(x)
           /\ \A i \in 1..Len(x) :
                /\ x[i] = " " => v.once[i] = "_"
                /\ v.once[i] # " "
                /\ \A k \in 1..Len(UpperCase) :
                     /\ v.once[i] # UpperCase[k]
                     /\ x[i] = UpperCase[k] => v.once[i] = LowerCase[k]
                     /\ x[i] = LowerCase[k] => v.once[i] = LowerCase[k]
           /\ v.twice = v.once
           /\ v.component = v.once
           /\ v.payload = v.once
           /\ v.entity = v.once

C21_NormalizedDewPoint ==
    /\ decoded.op = "param_name"
    /\ decoded.input = <<"D","e","w"," ","P","o","i","n","t">>
    /\ decoded.value.twice = <<"d","e","w","_","p","o","i","n","t">>
    /\ decoded.value.entity = decoded.value.payload

\* The number of metric components in the device announcements of a sequence
\* of events.
RECURSIVE ComponentsAnnounced(_)
ComponentsAnnounced(events) ==
    IF events = <<>> THEN 0
    ELSE ( IF /\ Head(events).op = "PUB"
              /\ Head(events).topic.leaf = "config"
              /\ Head(events).topic.id.type # <<"h","u","b">>
           THEN Len(Head(events).payload.components)
           ELSE 0 )
         + ComponentsAnnounced(Tail(events))

\* C22: after a completed discovery cycle of pulseapp.py the snapshot holds
\* one entry per hub announced in the cycle (the published hub count is the
\* length of that snapshot), and the published sensor count is the number of
\* metric components in the device announcements of the cycle.
C22_SummaryMatchesDiscovery ==
    (variant = "pulseapp" /\ d_pc = "idle" /\ d_result = "completed")
    => /\ Len(store.hubs)
            = Cardinality({ i \in HubGets(d_log) : d_log[i].result = "ok" })
       /\ store.count = ComponentsAnnounced(d_log)

\* app.py left to its scheduler: the entities are set, nobody changes an
\* interval, every timer that is due fires when the app is idle, and a request
\* of a running callback is answered or times out (API_TIMEOUT).
InitScheduled ==
    /\ InitWith({"app"}, FALSE)
    /\ plugins
    /\ api_key
    /\ \A e \in Entities : hass_interval[e] # 0
FairScheduled ==
    /\ WF_vars(initialize)
    /\ SF_vars(hub_device_discovery)
    /\ WF_vars(_process_and_publish_hubs)
    /\ WF_vars(_process_and_publish_devices)
    /\ WF_vars(hub_sensor_updates_device)
SpecScheduled == InitScheduled /\ [][NextCycles]_vars /\ FairScheduled

\* C23: a successful initialize of app.py registers one periodic state-update
\* job and one periodic discovery job, each at the interval of its entity and
\* under the handle the app keeps, the listeners of the two entities, and one
\* one-shot discovery 10 seconds later; and with nobody changing an interval,
\* a discovery cycle eventually runs.
C23_InitializeSchedulesJobs ==
    /\ [][ (lifecycle = "created" /\ lifecycle' = "initialized")
            => /\ { t \in timers' : t.every }
                    = { [id |-> state_update_job', callback |-> "hub_sensor_updates",
                         interval |-> hass_interval[UPDATE_ENTITY], every |-> TRUE],
                        [id |-> discovery_job', callback |-> "hub_device_discovery",
                         interval |-> hass_interval[DISCOVERY_ENTITY], every |-> TRUE] }
               /\ state_update_job' # discovery_job'
               /\ Cardinality({ t \in timers' : ~t.every }) = 1
               /\ \A t \in timers' :
                    ~t.every => t.callback = "hub_device_discovery" /\ t.interval = 10
               /\ listeners' = { [callback |-> "update_intervals", entity |-> e] :
                                   e \in Entities } ]_vars
    /\ (lifecycle = "initialized") ~> (d_result # "none")

C23_DiscoveryRanUnprompted ==
    /\ lifecycle = "initialized"
    /\ changes = 0
    /\ d_result = "completed"
    /\ Cardinality(timers) = 2

\* app.py with the announcements of the run recorded, for the properties that
\* relate a message to the messages of the callbacks before it.
InitRun ==
    /\ InitFrom({"app"}, RunHistory)
    /\ plugins
    /\ api_key
    /\ \A e \in Entities : hass_interval[e] # 0
SpecRun == InitRun /\ [][NextCycles]_vars

\* C24: every state message of a device that the state publisher of app.py
\* publishes goes to a state topic that an announcement named earlier in the
\* run; so a device that discovery skipped, its reading fetch having failed,
\* and never announced gets no state message.
C24_AnnounceBeforeState ==
    \A i \in DevicePubs(p_log, "state") : p_log[i].topic \in HistoryOfRun

\* C25: when app.py has announced a device and publishes the state of the same
\* device under the same sensor type, the state message goes to the
\* state_topic of every component announced for the device, and every key of
\* its payload is the key that the value_template of one of these components
\* refers to.
C25_PublisherAgreesWithDiscovery ==
    \A i \in DevicePubs(p_log, "state"), j \in DevicePubs(d_log, "config") :
        p_log[i].topic.id = d_log[j].topic.id
        => LET components == d_log[j].payload.components
               payload == p_log[i].payload
           IN  /\ \A n \in 1..Len(components) :
                    components[n].value.state_topic = p_log[i].topic
               /\ \A k \in 1..Len(payload) :
                    \E n \in 1..Len(components) :
                       /\ components[n].value.value_template = payload[k].key
                       /\ param_name(components[n].value.name) = payload[k].key

C25_PublishedAnnouncedDevice ==
    \E i \in DevicePubs(p_log, "state"), j \in DevicePubs(d_log, "config") :
        /\ p_log[i].topic.id = d_log[j].topic.id
        /\ Len(p_log[i].payload) = 2
        /\ Len(d_log[j].payload.components) = 2

\* C26: in a discovery cycle every device announcement follows the
\* announcement, in the same cycle, of the hub its via_device names, and that
\* hub's detail fetch succeeded in the cycle.
C26_HubAnnouncedBeforeItsDevices ==
    \A j \in DevicePubs(d_log, "config") :
        LET hub == d_log[j].payload.device.via_device
        IN  /\ \E i \in 1..(j - 1) :
                 /\ d_log[i].op = "PUB"
                 /\ d_log[i].topic = ConfigTopic(hub)
            /\ \E i \in HubGets(d_log) :
                 /\ i < j
                 /\ d_log[i].result = "ok"
                 /\ hub_unique_id(d_log[i].id) = hub

\* The hubs of the snapshot the state publisher of the revision walks.
SnapshotHubs ==
    CASE variant = "app" -> { discovered_hubs[h].value : h \in 1..Len(discovered_hubs) }
      [] variant = "pulseapp" -> { store.hubs[h] : h \in 1..Len(store.hubs) }
      [] OTHER -> {}
HubStatePubs(events, hub) ==
    { i \in 1..Len(events) :
        events[i].op = "PUB" /\ events[i].topic = StateTopic(hub_unique_id(hub.id)) }

\* C27: when a state-publish cycle of app.py or pulseapp.py has ended, every
\* hub of the snapshot has exactly one message in the cycle on the state topic
\* that the hub's announcement names, retained and saying ON, and the message
\* comes before every fetch of a device of that hub, whatever the fetches of
\* the cycle came to.
C27_EveryHubSaysOn ==
    PublisherEnded
    => \A hub \in SnapshotHubs :
          /\ Cardinality(HubStatePubs(p_log, hub)) = 1
          /\ \A i \in HubStatePubs(p_log, hub) :
               /\ p_log[i].payload = "ON"
               /\ p_log[i].retain
               /\ p_log[i].topic = HubPayload(hub).components[1].value.state_topic
               /\ \A g \in SensorGets(p_log) : HubOf(p_log[g].id) = hub.id => i < g

\* C28: in app.py, in the state right after _process_and_publish_hubs has
\* written the discovered_hubs attributes to the host store, the keys of
\* self.discovered_hubs are the keys of the attributes written by that call.
C28_SnapshotKeysAreStoredKeys ==
    ( /\ variant = "app"
      /\ d_log # <<>>
      /\ d_log[Len(d_log)].op = "SET"
      /\ d_log[Len(d_log)].entity = "discovered_hubs" )
    => DictKeys(discovered_hubs) = DictKeys(store.hubs)

\* ------------------------------------------------------ app.py: terminate
\* hasattr(self, "_session"): __init__ assigns self._session = None, so the
\* attribute exists on every instance, whether or not a session was created.
hasattr_session == TRUE

\* PulseApp.terminate of app.py, called by the host when it stops the app, be
\* it after an initialize that returned or after one that raised; the host
\* stops an app between its callbacks.  self._session.close() on the None that
\* __init__ left raises AttributeError.
terminate ==
    /\ variant = "app"
    /\ lifecycle \in { "initialized", "init_failed" }
    /\ d_pc = "idle"
    /\ p_pc = "idle"
    /\ IF hasattr_session /\ session = "none"
       THEN /\ lifecycle' = "terminate_raised"
            /\ UNCHANGED session
       ELSE /\ lifecycle' = "terminated"
            /\ session' = IF hasattr_session THEN "closed" ELSE session
    /\ UNCHANGED <<hostVars, history, decoded, hass_interval, schedVars, changes, cycleVars,
                   dataVars>>

\* app.py from construction to the end of the app: initialize, the callbacks
\* of the timers, and terminate.
NextLifetime ==
    \/ NextCycles
    \/ terminate

SpecLifetime == Init /\ [][NextLifetime]_vars

\* C29: terminate of app.py does not raise, and it leaves the session closed
\* exactly when initialize had created one: a terminate after an initialize
\* that failed for a missing plugin or a missing API key ends normally with no
\* session touched.
C29_TerminateNeverRaises ==
    [][ (lifecycle \in { "initialized", "init_failed" }
         /\ lifecycle' \in { "terminated", "terminate_raised" })
        => /\ lifecycle' = "terminated"
           /\ session' = IF session = "open" THEN "closed" ELSE "none" ]_vars

\* pulse_sensors.py with the history of the run recorded.
InitReadings == InitFrom({"pulse_sensors"}, RunHistory)
SpecReadings == InitReadings /\ [][NextPulseSensors]_vars

\* update_sensors of pulse_sensors.py ends in this step, every request of the
\* cycle having been answered.
UpdateSensorsEnded ==
    /\ variant = "pulse_sensors"
    /\ p_result = "running"
    /\ p_result' # "running"
    /\ \A i \in 1..Len(p_log') :
         p_log'[i].op = "GET" => p_log'[i].result # "RequestError"
\* The instant input_text.pulse_last_update stands for in a store: the one
\* written there, or else the hour before the run that update_sensors takes.
LastUpdateOf(s) == IF s.last_update # 0 THEN s.last_update ELSE HourAgo
Newest(instants) == CHOOSE t \in instants : \A u \in instants : u <= t

\* C30: in pulse_sensors.py, when update_sensors ends with every request
\* answered, the last-update instant
\* has not gone back; it was written only if an entry of the cycle is newer
\* than the instant before; it is the newest of the instant before and the
\* instants of the entries the cycle was given to record; and no state was
\* written for a parameter whose values differ in number from the timestamps.
C30_LastUpdateFollowsReadings ==
    [][ UpdateSensorsEnded
        => /\ LastUpdateOf(store') >= LastUpdateOf(store)
           /\ store'.last_update # store.last_update
                => \E t \in history'.fetched : t > LastUpdateOf(store)
           /\ LastUpdateOf(store')
                = Newest({ LastUpdateOf(store) } \cup history'.fetched)
           /\ \A i \in 1..Len(p_log') :
                p_log'[i].op = "SET" => p_log'[i].entity \notin history'.skipped ]_vars

====
